---- MODULE Spec2Model ----
(***************************************************************************)
(* A model of the checkers endgame solver's Python mirror (src/board.py):  *)
(* SparseBoard move generation (forced capture, multi-jump, promotion) and *)
(* the ExploreState score cache, search stack and strategy map.            *)
(*                                                                         *)
(* A board is the dict SparseBoard.sparse_board: a function from the       *)
(* occupied squares <<x, y>> to a piece value in {1, 2, -1, -2}.  A list   *)
(* of boards is a sequence.  The dict is iterated in row-major order (the  *)
(* insertion order of read_from_string); the order of the returned list    *)
(* follows from it.                                                        *)
(***************************************************************************)
EXTENDS Integers, Sequences, FiniteSets, TLC

\* Board.__init__(width, height): the instance modelled.
width == 5
height == 5
\* Largest number of pieces on an exhaustively enumerated starting board.
MaxPieces == 2

\* Bounds of the score-cache model: board hashes 1..NumHashes, search depths
\* 0..MaxDepth, and the cap on the cache_hits counter.
NumHashes == 2
MaxDepth == 1
MaxHits == 1
\* Bounds of the search-stack model: board objects alive at once and the
\* depth of the stack.
MaxObjects == 2
MaxStack == 2
\* Bound of the strategy-map model: update_strategy calls made in one run.
MaxUpdates == 2
\* Bound of the search model: the largest max depth a search is started with.
MaxSearchDepth == 6

\* float("inf"): larger than every heuristic score.
Inf == 1000

VARIABLES
    sparse_board,   \* SparseBoard.sparse_board of the current position
    player,         \* the side to move: 1 (Red) or -1 (Black)
    successors,     \* the list returned for (sparse_board, player)
    value,          \* the value get_terminal_value_and_succ returned
    pc,             \* "idle": position set up; "generated": get_successors
                    \* returned; "scored": get_terminal_value_and_succ returned
    score_cache,    \* ExploreState.score_cache: hash -> <<score, depth, player>>
    use_score_cache,\* ExploreState.use_score_cache
    cache_hits,     \* ExploreState.cache_hits
    last_call,      \* the ExploreState call that returned last, with its
                    \* arguments, its result and the entry it replaced
    heap,           \* the SparseBoard objects alive: object id -> sparse_board
    successor_stack,\* ExploreState.successor_stack: [stack, lookup]
    pending,        \* per item, the push calls made with it so far minus
                    \* the pop calls that returned it
    stack_ret,      \* the search-stack call that returned last, with its
                    \* argument and its result
    strategy,       \* ExploreState.strategy: <<hash, player>> -> <<board, score>>
    updates,        \* the update_strategy calls made so far
    path,           \* recover_best_path: the local path
    in_path,        \* recover_best_path: the local in_path
    rboard,         \* recover_best_path: the local board
    rplayer,        \* recover_best_path: the local player
    rroot,          \* recover_best_path: the arguments of the call
    rpc,            \* recover_best_path: "idle", "loop" (at the while test)
                    \* or "done" (returned)
    key_order,      \* object id -> the key order of the object's dict
    frames,         \* the search: the frames of the nodes being expanded
    node_call,      \* the search: the arguments of the node call being made
    node_ret,       \* the search: the score the last node call returned
    spc,            \* the search: "idle", "enter" (a node call is made),
                    \* "expand" (at the loop over the children), "return"
                    \* (a node call returned), "returned" (the root call did)
    max_depth,      \* the search: the max depth it was started with
    root_score,     \* the search: the score of the root
    pass,           \* 1: searching with the score cache; 2: the same
                    \* search again on a new ExploreState without it
    first,          \* the results of pass 1
    recurred        \* some (position, side) was pushed while on the stack

board_vars == <<sparse_board, player, successors, value, pc>>
cache_vars == <<score_cache, use_score_cache, cache_hits, last_call>>
stack_vars == <<heap, successor_stack, pending, stack_ret>>
path_vars == <<strategy, updates, path, in_path, rboard, rplayer, rroot, rpc>>
search_vars == <<key_order, frames, node_call, node_ret, spc, max_depth,
                 root_score, pass, first, recurred>>
vars == <<sparse_board, player, successors, value, pc,
          score_cache, use_score_cache, cache_hits, last_call,
          heap, successor_stack, pending, stack_ret,
          strategy, updates, path, in_path, rboard, rplayer, rroot, rpc,
          key_order, frames, node_call, node_ret, spc, max_depth,
          root_score, pass, first, recurred>>

----------------------------------------------------------------------------
(* Helpers on sequences and boards *)

Range(s) == {s[i] : i \in DOMAIN s}

RECURSIVE Flatten(_)
Flatten(ss) == IF ss = <<>> THEN <<>> ELSE Head(ss) \o Flatten(Tail(ss))

Abs(v) == IF v < 0 THEN -v ELSE v

Squares == (0..(width - 1)) \X (0..(height - 1))

\* 0 <= x < self.width and 0 <= y < self.height
InBounds(loc) == 0 <= loc[1] /\ loc[1] < width /\ 0 <= loc[2] /\ loc[2] < height

\* self.sparse_board.get(loc, 0)
Get(board, loc) == IF loc \in DOMAIN board THEN board[loc] ELSE 0

\* The squares in row-major order: y outer, x inner.
SquareSeq == [i \in 1..(width * height) |-> <<(i - 1) % width, (i - 1) \div width>>]

\* self.sparse_board.items(): the occupied squares in iteration order.
Items(board) == SelectSeq(SquareSeq, LAMBDA sq : sq \in DOMAIN board)

\* json.dumps(tuple(sorted(self.sparse_board.items()))): the sorted list of
\* (square, value) pairs that is fed to hash().  sorted() orders by x, then y.
SortedSquareSeq == [i \in 1..(width * height) |-> <<(i - 1) \div height, (i - 1) % height>>]
HashKey(board) ==
    LET sq == SelectSeq(SortedSquareSeq, LAMBDA s : s \in DOMAIN board)
    IN  [i \in 1..Len(sq) |-> <<sq[i], board[sq[i]]>>]

----------------------------------------------------------------------------
(* SparseBoard._perform_move / _perform_jump *)

\* king_row = 0 if val > 0 else self.height - 1
KingRow(val) == IF val > 0 THEN 0 ELSE height - 1

\* Mutant: only row 0 crowns, so a black man is never crowned.
Promote_RowZeroOnly(val, dest_y) ==
    IF Abs(val) = 1 /\ dest_y = 0 THEN val * 2 ELSE val

\* new_val = val*2 if the destination row is the king row (men only)
Promote(val, dest_y) ==
    IF Abs(val) = 1
    THEN (IF dest_y = KingRow(val) THEN val * 2 ELSE val)
    ELSE val

\* Mutant: the copy keeps the piece on the square it moved from.
PerformMove_KeepsOrigin(board, x, y, move) ==
    LET val == board[<<x, y>>]
        dest == <<x + move[1], y + move[2]>>
    IN  [sq \in DOMAIN board \cup {dest} |->
            IF sq = dest THEN Promote(val, y + move[2]) ELSE board[sq]]

\* Copies the board and performs a single move on it.
PerformMove(board, x, y, move) ==
    LET val == board[<<x, y>>]
        dest == <<x + move[1], y + move[2]>>
        new_val == Promote(val, y + move[2])
    IN  [sq \in (DOMAIN board \ {<<x, y>>}) \cup {dest} |->
            IF sq = dest THEN new_val ELSE board[sq]]

\* Mutant: the jumping piece is left on its square as well.
PerformJump_KeepsOrigin(board, x, y, move) ==
    LET val == board[<<x, y>>]
        mid == <<x + move[1], y + move[2]>>
        dest == <<x + move[1] * 2, y + move[2] * 2>>
        new_val == Promote(val, y + move[2] * 2)
    IN  [sq \in (DOMAIN board \ {mid}) \cup {dest} |->
            IF sq = dest THEN new_val ELSE board[sq]]

\* Copies the board and performs a single jump on it.
PerformJump(board, x, y, move) ==
    LET val == board[<<x, y>>]
        mid == <<x + move[1], y + move[2]>>
        dest == <<x + move[1] * 2, y + move[2] * 2>>
        new_val == Promote(val, y + move[2] * 2)
    IN  [sq \in (DOMAIN board \ {<<x, y>>, mid}) \cup {dest} |->
            IF sq = dest THEN new_val ELSE board[sq]]

----------------------------------------------------------------------------
(* SparseBoard._follow_jump and get_successors *)

\* Mutant: every piece gets the four directions of a king.
PotentialMoves_AllFour(is_king, p) ==
    << <<1, -p>>, <<-1, -p>>, <<1, p>>, <<-1, p>> >>

\* potential_moves: forward for the player, plus backward for a king.
PotentialMoves(is_king, p) ==
    IF is_king
    THEN << <<1, -p>>, <<-1, -p>>, <<1, p>>, <<-1, p>> >>
    ELSE << <<1, -p>>, <<-1, -p>> >>

\* Mutant: the landing square is not tested for the board bounds.
CanJump_AnyLanding(board, x, y, move, p) ==
    LET move_location == <<x + move[1], y + move[2]>>
        jump_location == <<x + move[1] * 2, y + move[2] * 2>>
    IN  /\ InBounds(move_location)
        /\ Get(board, move_location) * p < 0
        /\ Get(board, jump_location) = 0

\* move_occupation is not None and move_occupation * player < 0 and jump_occupation == 0
CanJump(board, x, y, move, p) ==
    LET move_location == <<x + move[1], y + move[2]>>
        jump_location == <<x + move[1] * 2, y + move[2] * 2>>
    IN  /\ InBounds(move_location)
        /\ Get(board, move_location) * p < 0
        /\ InBounds(jump_location)
        /\ Get(board, jump_location) = 0

\* Mutant: the rank is read again after every jump, so a man crowned in the
\* middle of a sequence jumps on as a king.
RECURSIVE FollowJump_KingContinues(_, _, _, _, _, _)
FollowJump_KingContinues(board, x, y, move, is_king, p) ==
    LET new_board == PerformJump(board, x, y, move)
        new_x == x + move[1] * 2
        new_y == y + move[2] * 2
        now_king == Abs(new_board[<<new_x, new_y>>]) = 2
        potential_moves == PotentialMoves(now_king, p)
        next(i) == IF CanJump(new_board, new_x, new_y, potential_moves[i], p)
                   THEN FollowJump_KingContinues(new_board, new_x, new_y,
                                                 potential_moves[i], now_king, p)
                   ELSE <<>>
        found == Flatten([i \in 1..Len(potential_moves) |-> next(i)])
    IN  IF Len(found) = 0 THEN <<new_board>> ELSE found

\* Recursively follows a multi-jump until there are no more jumps.  The test
\* for a further jump reads self (the board before this jump) and the rank
\* flag is_king is the one get_successors passed in.
RECURSIVE FollowJump(_, _, _, _, _, _)
FollowJump(board, x, y, move, is_king, p) ==
    LET new_board == PerformJump(board, x, y, move)
        new_x == x + move[1] * 2
        new_y == y + move[2] * 2
        potential_moves == PotentialMoves(is_king, p)
        next(i) == IF CanJump(board, new_x, new_y, potential_moves[i], p)
                   THEN FollowJump(new_board, new_x, new_y, potential_moves[i], is_king, p)
                   ELSE <<>>
        found == Flatten([i \in 1..Len(potential_moves) |-> next(i)])
    IN  IF Len(found) = 0 THEN <<new_board>> ELSE found

\* The jumps get_successors collects for the piece on (x, y).
PieceJumps(board, x, y, p) ==
    LET val == board[<<x, y>>]
        potential_moves == PotentialMoves(val * p = 2, p)
        one(i) == IF CanJump(board, x, y, potential_moves[i], p)
                  THEN FollowJump(board, x, y, potential_moves[i], val * p = 2, p)
                  ELSE <<>>
    IN  IF val * p > 0
        THEN Flatten([i \in 1..Len(potential_moves) |-> one(i)])
        ELSE <<>>

\* The quiet moves get_successors collects for the piece on (x, y).
PieceMoves(board, x, y, p) ==
    LET val == board[<<x, y>>]
        potential_moves == PotentialMoves(val * p = 2, p)
        one(i) == LET move == potential_moves[i]
                      move_location == <<x + move[1], y + move[2]>>
                  IN  IF InBounds(move_location) /\ Get(board, move_location) = 0
                      THEN <<PerformMove(board, x, y, move)>>
                      ELSE <<>>
    IN  IF val * p > 0
        THEN Flatten([i \in 1..Len(potential_moves) |-> one(i)])
        ELSE <<>>

JumpSuccessors(board, p) ==
    LET it == Items(board)
    IN  Flatten([i \in 1..Len(it) |-> PieceJumps(board, it[i][1], it[i][2], p)])

MoveSuccessors(board, p) ==
    LET it == Items(board)
    IN  Flatten([i \in 1..Len(it) |-> PieceMoves(board, it[i][1], it[i][2], p)])

\* Mutant: the quiet moves are returned along with the jumps.
ChooseSuccessors_Both(jump_successors, move_successors) ==
    jump_successors \o move_successors

\* successors = jump_successors if len(jump_successors) > 0 else move_successors
ChooseSuccessors(jump_successors, move_successors) ==
    IF Len(jump_successors) > 0 THEN jump_successors ELSE move_successors

\* Mutant: no board is dropped.
Unique_KeepAll(list, seen_hashes, unique_successors) == unique_successors \o list

\* unique_successors: the first board of every hash, in order.
RECURSIVE Unique(_, _, _)
Unique(list, seen_hashes, unique_successors) ==
    IF list = <<>> THEN unique_successors
    ELSE IF HashKey(Head(list)) \notin seen_hashes
         THEN Unique(Tail(list), seen_hashes \cup {HashKey(Head(list))},
                     Append(unique_successors, Head(list)))
         ELSE Unique(Tail(list), seen_hashes, unique_successors)

GetSuccessors(board, p) ==
    Unique(ChooseSuccessors(JumpSuccessors(board, p), MoveSuccessors(board, p)), {}, <<>>)

----------------------------------------------------------------------------
(* get_successors on a board whose dict has a given key order *)

\* The key order of the dict of s, a successor of board generated for the
\* piece on origin: _perform_move and _perform_jump delete the keys of the
\* moved and the captured piece from a copy of the dict and insert the
\* landing square last.
NewOrder(board, items, origin, s, p) ==
    LET landing == CHOOSE sq \in DOMAIN s :
                        /\ s[sq] * p > 0
                        /\ (sq = origin \/ sq \notin DOMAIN board \/ board[sq] * p <= 0)
    IN  SelectSeq(items, LAMBDA sq : sq \in DOMAIN s /\ sq # origin /\ sq # landing)
            \o <<landing>>

\* A list of successors generated for the piece on origin, as
\* <<sparse_board, key order>> pairs.
WithOrder(board, items, origin, list, p) ==
    [i \in 1..Len(list) |-> <<list[i], NewOrder(board, items, origin, list[i], p)>>]

RECURSIVE UniqueOrdered(_, _, _)
UniqueOrdered(list, seen_hashes, unique_successors) ==
    IF list = <<>> THEN unique_successors
    ELSE IF HashKey(Head(list)[1]) \notin seen_hashes
         THEN UniqueOrdered(Tail(list), seen_hashes \cup {HashKey(Head(list)[1])},
                            Append(unique_successors, Head(list)))
         ELSE UniqueOrdered(Tail(list), seen_hashes, unique_successors)

\* get_successors(player) on a board whose dict iterates in the order items:
\* the successors in the order of the returned list, each with the key order
\* of its own dict.
GetSuccessorsOrdered(board, items, p) ==
    LET jump_successors ==
            Flatten([i \in 1..Len(items) |->
                WithOrder(board, items, items[i],
                          PieceJumps(board, items[i][1], items[i][2], p), p)])
        move_successors ==
            Flatten([i \in 1..Len(items) |->
                WithOrder(board, items, items[i],
                          PieceMoves(board, items[i][1], items[i][2], p), p)])
    IN  UniqueOrdered(ChooseSuccessors(jump_successors, move_successors), {}, <<>>)

----------------------------------------------------------------------------
(* get_successors on objects and dicts.  A store holds the SparseBoard     *)
(* objects alive, each with a reference to its dict, and the dicts; a dict *)
(* is its mapping and the order of its keys.  The statements of the        *)
(* methods act on the store one after the other; err records a KeyError    *)
(* (a key deleted or read that the dict does not hold), overwritten an     *)
(* assignment to a key the dict already held, calls the receiver's dict at *)
(* the entry and at the return of every method call, and tests every test  *)
(* _follow_jump made for a further jump, with the answer the same test     *)
(* gives on new_board.                                                     *)

\* The store of the objects with sparse_boards hp and key orders orders,
\* every object with a dict of its own.
NewStore(hp, orders) ==
    [objs |-> [i \in DOMAIN hp |-> i],
     dicts |-> [i \in DOMAIN hp |-> [map |-> hp[i], keys |-> orders[i]]],
     err |-> FALSE,
     overwritten |-> FALSE,
     calls |-> <<>>,
     tests |-> <<>>]

\* obj.sparse_board
DictOf(st, obj) == st.dicts[st.objs[obj]]

\* The return of a call of method on obj, whose dict was before at the entry.
Returned(st, method, obj, before) ==
    [st EXCEPT !.calls = Append(@, [method |-> method, self |-> obj,
                                    before |-> before, after |-> DictOf(st, obj)])]

\* Mutant: the new board refers to the dict of the board copied.
Copy_SharesDict(st, obj) ==
    [st EXCEPT !.objs = Append(@, st.objs[obj])]

\* _copy: a new object whose sparse_board is self.sparse_board.copy().  The
\* new object is the last of the store.
Copy(st, obj) ==
    [st EXCEPT !.objs = Append(@, Len(st.dicts) + 1),
               !.dicts = Append(@, DictOf(st, obj))]

\* del obj.sparse_board[k]
DelKey(st, obj, k) ==
    [st EXCEPT !.dicts[st.objs[obj]] =
                    [map |-> [sq \in DOMAIN @.map \ {k} |-> @.map[sq]],
                     keys |-> SelectSeq(@.keys, LAMBDA q : q # k)],
               !.err = @ \/ k \notin DOMAIN DictOf(st, obj).map]

\* obj.sparse_board[k] = v: a new key goes to the end of the key order.
SetKey(st, obj, k, v) ==
    [st EXCEPT !.dicts[st.objs[obj]] =
                    [map |-> (k :> v) @@ @.map,
                     keys |-> IF k \in DOMAIN @.map THEN @.keys
                              ELSE Append(@.keys, k)],
               !.overwritten = @ \/ k \in DOMAIN DictOf(st, obj).map]

\* Op applied to the value of v: a statement's result is computed once and
\* then used by the statements after it.
With(v, Op(_)) == CHOOSE y \in {Op(x) : x \in {v}} : TRUE

\* _perform_move on the store: <<store, new object>>.
PerformMoveOn(st, obj, x, y, move) ==
    With(Copy(st, obj), LAMBDA s1 :
    With(Len(s1.objs), LAMBDA new_board :
    With(DelKey(s1, new_board, <<x, y>>), LAMBDA s2 :
    With(SetKey(s2, new_board, <<x + move[1], y + move[2]>>,
                Promote(Get(DictOf(s1, new_board).map, <<x, y>>), y + move[2])),
         LAMBDA s3 :
    <<Returned(s3, "_perform_move", obj, DictOf(st, obj)), new_board>>))))

\* _perform_jump on the store: <<store, new object>>.
PerformJumpOn(st, obj, x, y, move) ==
    With(Copy(st, obj), LAMBDA s1 :
    With(Len(s1.objs), LAMBDA new_board :
    With(DelKey(s1, new_board, <<x, y>>), LAMBDA s2 :
    With(DelKey(s2, new_board, <<x + move[1], y + move[2]>>), LAMBDA s3 :
    With(SetKey(s3, new_board, <<x + move[1] * 2, y + move[2] * 2>>,
                Promote(Get(DictOf(s1, new_board).map, <<x, y>>),
                        y + move[2] * 2)),
         LAMBDA s4 :
    <<Returned(s4, "_perform_jump", obj, DictOf(st, obj)), new_board>>)))))

\* The store with a test of _follow_jump recorded: the test for a further
\* jump of the piece on (new_x, new_y) in the direction move, read on self,
\* gave answer.
Tested(st, obj, new_board, new_x, new_y, move, p, answer) ==
    [st EXCEPT !.tests = Append(@,
        [self |-> obj, new_board |-> new_board, from |-> <<new_x, new_y>>,
         move |-> move, answer |-> answer,
         on_new_board |-> CanJump(DictOf(st, new_board).map, new_x, new_y,
                                  move, p)])]

\* _follow_jump on the store: <<store, list of objects>>.
RECURSIVE FollowJumpOn(_, _, _, _, _, _, _)

\* Mutant: the test for a further jump does not look at the landing square.
FollowStep_AnyLanding(st, obj, new_board, new_x, new_y, move, is_king, p) ==
    IF /\ InBounds(<<new_x + move[1], new_y + move[2]>>)
       /\ Get(DictOf(st, obj).map, <<new_x + move[1], new_y + move[2]>>) * p < 0
    THEN FollowJumpOn(Tested(st, obj, new_board, new_x, new_y, move, p, TRUE),
                      new_board, new_x, new_y, move, is_king, p)
    ELSE <<Tested(st, obj, new_board, new_x, new_y, move, p, FALSE), <<>> >>

\* One pass of the for loop of _follow_jump, for the potential move move:
\* <<store, successors found>>.  The test reads self; the jump goes on from
\* new_board.
FollowStep(st, obj, new_board, new_x, new_y, move, is_king, p) ==
    IF CanJump(DictOf(st, obj).map, new_x, new_y, move, p)
    THEN FollowJumpOn(Tested(st, obj, new_board, new_x, new_y, move, p, TRUE),
                      new_board, new_x, new_y, move, is_king, p)
    ELSE <<Tested(st, obj, new_board, new_x, new_y, move, p, FALSE), <<>> >>

\* The for loop of _follow_jump from the i-th potential move on, with the
\* successors so far.
RECURSIVE FollowLoop(_, _, _, _, _, _, _, _, _)
FollowLoop(st, obj, new_board, new_x, new_y, is_king, p, i, acc) ==
    IF i > Len(PotentialMoves(is_king, p)) THEN <<st, acc>>
    ELSE With(FollowStep(st, obj, new_board, new_x, new_y,
                         PotentialMoves(is_king, p)[i], is_king, p),
              LAMBDA r :
              FollowLoop(r[1], obj, new_board, new_x, new_y, is_king, p, i + 1,
                         acc \o r[2]))

FollowJumpOn(st, obj, x, y, move, is_king, p) ==
    With(PerformJumpOn(st, obj, x, y, move), LAMBDA pj :
    With(FollowLoop(pj[1], obj, pj[2], x + move[1] * 2, y + move[2] * 2,
                    is_king, p, 1, <<>>),
         LAMBDA r :
    <<Returned(r[1], "_follow_jump", obj, DictOf(st, obj)),
      IF Len(r[2]) = 0 THEN <<pj[2]>> ELSE r[2]>>))

\* One pass of the inner for loop of get_successors, for the piece val on
\* (x, y) and the potential move move; acc is the record of the store,
\* move_successors and jump_successors so far.
MoveStep(acc, obj, x, y, val, p, move) ==
    LET board == DictOf(acc.st, obj).map
        move_location == <<x + move[1], y + move[2]>>
    IN  IF ~InBounds(move_location) THEN acc
        ELSE IF Get(board, move_location) # 0
        THEN (IF CanJump(board, x, y, move, p)
              THEN With(FollowJumpOn(acc.st, obj, x, y, move, val * p = 2, p),
                        LAMBDA r :
                        [acc EXCEPT !.st = r[1], !.jump_successors = @ \o r[2]])
              ELSE acc)
        ELSE With(PerformMoveOn(acc.st, obj, x, y, move), LAMBDA r :
                  [acc EXCEPT !.st = r[1], !.move_successors = Append(@, r[2])])

\* The inner for loop of get_successors from the i-th potential move on.
RECURSIVE MovesLoop(_, _, _, _, _, _, _)
MovesLoop(acc, obj, x, y, val, p, i) ==
    IF i > Len(PotentialMoves(val * p = 2, p)) THEN acc
    ELSE With(MoveStep(acc, obj, x, y, val, p, PotentialMoves(val * p = 2, p)[i]),
              LAMBDA next : MovesLoop(next, obj, x, y, val, p, i + 1))

\* The outer loop over the items of self.sparse_board, from the i-th key of
\* the order the dict had when the loop began.
RECURSIVE PiecesLoop(_, _, _, _, _)
PiecesLoop(acc, obj, keys, p, i) ==
    IF i > Len(keys) THEN acc
    ELSE With(LET val == Get(DictOf(acc.st, obj).map, keys[i])
              IN  IF val * p > 0
                  THEN MovesLoop(acc, obj, keys[i][1], keys[i][2], val, p, 1)
                  ELSE acc,
              LAMBDA next : PiecesLoop(next, obj, keys, p, i + 1))

\* unique_successors: the first object of every hash, in order.
RECURSIVE UniqueOn(_, _, _, _)
UniqueOn(st, list, seen_hashes, unique_successors) ==
    IF list = <<>> THEN unique_successors
    ELSE With(HashKey(DictOf(st, Head(list)).map), LAMBDA h :
         IF h \notin seen_hashes
         THEN UniqueOn(st, Tail(list), seen_hashes \cup {h},
                       Append(unique_successors, Head(list)))
         ELSE UniqueOn(st, Tail(list), seen_hashes, unique_successors))

\* obj.get_successors(p) on the store: <<store, list of objects>>.
GetSuccessorsOn(st, obj, p) ==
    With(PiecesLoop([st |-> st, move_successors |-> <<>>,
                     jump_successors |-> <<>>],
                    obj, DictOf(st, obj).keys, p, 1),
         LAMBDA acc :
    <<Returned(acc.st, "get_successors", obj, DictOf(st, obj)),
      UniqueOn(acc.st,
               ChooseSuccessors(acc.jump_successors, acc.move_successors),
               {}, <<>>)>>)

----------------------------------------------------------------------------
(* SparseBoard.evaluate and utility *)

\* evaluate() is a quotient of two integers; it is held as the integer
\* EvalScale * total_score / total_pieces, exact for up to 6 pieces.
EvalScale == 60

RECURSIVE TotalScore(_, _)
TotalScore(board, D) ==
    IF D = {} THEN 0
    ELSE LET sq == CHOOSE sq \in D : TRUE
         IN  board[sq] + TotalScore(board, D \ {sq})

\* Mutant: the sum is not divided by the number of pieces.
Evaluate_TotalScore(board) ==
    EvalScale * TotalScore(board, DOMAIN board)

\* total_score / total_pieces
Evaluate(board) ==
    (EvalScale * TotalScore(board, DOMAIN board)) \div Cardinality(DOMAIN board)

\* return self.evaluate()
Utility(board) == Evaluate(board)

----------------------------------------------------------------------------
(* Starting positions *)

PieceValues == {1, 2, -1, -2}

\* The squares of one colour of the chequered board (x + y even).
PlaySquares == {sq \in Squares : (sq[1] + sq[2]) % 2 = 0}

SmallBoards ==
    UNION {[D -> PieceValues] : D \in {S \in SUBSET PlaySquares : Cardinality(S) <= MaxPieces}}

Board(pieces) == [sq \in {pc_[1] : pc_ \in pieces} |->
                    (CHOOSE pc_ \in pieces : pc_[1] = sq)[2]]

\* A red king that can capture four men around a square, in both directions.
DiamondBoard ==
    Board({<< <<2, 0>>, 2>>, << <<3, 1>>, -1>>, << <<3, 3>>, -1>>,
           << <<1, 3>>, -1>>, << <<1, 1>>, -1>>})

\* Pieces on squares of both colours: a red capture on one, a red man with
\* quiet moves only on the other.
MixedBoard ==
    Board({<< <<0, 4>>, 1>>, << <<1, 3>>, -1>>, << <<1, 4>>, 1>>})

\* A red man that jumps onto its king row next to a second black piece; and
\* the same for a black man.
RedCrownBoard ==
    Board({<< <<0, 2>>, 1>>, << <<1, 1>>, -2>>, << <<3, 1>>, -2>>})
BlackCrownBoard ==
    Board({<< <<0, 2>>, -1>>, << <<1, 3>>, 1>>, << <<3, 3>>, 2>>})

\* A red man whose double jump branches after the first capture.
BranchBoard ==
    Board({<< <<0, 4>>, 1>>, << <<1, 3>>, -1>>, << <<1, 1>>, -1>>, << <<3, 1>>, -1>>})

\* A black king in the corner, shut in by two red kings.
CorneredBoard ==
    Board({<< <<0, 0>>, -2>>, << <<1, 1>>, 2>>, << <<2, 2>>, 2>>})

ScenarioBoards ==
    {DiamondBoard, MixedBoard, RedCrownBoard, BlackCrownBoard, BranchBoard,
     CorneredBoard}

StartBoards == SmallBoards \cup ScenarioBoards

----------------------------------------------------------------------------
(* SparseBoard.is_end and ExploreState.get_terminal_value_and_succ *)

\* -inf if Red has no piece, else +inf if Black has no piece, else 0.
IsEnd(board) ==
    LET red_pieces == Cardinality({sq \in DOMAIN board : board[sq] > 0})
        black_pieces == Cardinality({sq \in DOMAIN board : board[sq] < 0})
    IN  IF red_pieces = 0 THEN -Inf
        ELSE IF black_pieces = 0 THEN Inf
        ELSE 0

\* Mutant: a position in which one colour has no piece left is not taken
\* for terminal.
GetTerminalValueAndSucc_IgnoresEnd(board, p) ==
    LET succ == GetSuccessors(board, p)
    IN  IF Len(succ) = 0 THEN <<p * (-Inf), <<>> >>
        ELSE <<0, succ>>

\* Mutant: a side that cannot move is scored as the winner.
GetTerminalValueAndSucc_NoMoveWins(board, p) ==
    LET v == IsEnd(board)
        succ == GetSuccessors(board, p)
    IN  IF v > 0 THEN <<Inf, <<>> >>
        ELSE IF v < 0 THEN <<-Inf, <<>> >>
        ELSE IF Len(succ) = 0 THEN <<p * Inf, <<>> >>
        ELSE <<0, succ>>

\* Returns <<terminal value, successors>>.
GetTerminalValueAndSucc(board, p) ==
    LET v == IsEnd(board)
        succ == GetSuccessors(board, p)
    IN  IF v > 0 THEN <<Inf, <<>> >>
        ELSE IF v < 0 THEN <<-Inf, <<>> >>
        ELSE IF Len(succ) = 0 THEN <<p * (-Inf), <<>> >>
        ELSE <<0, succ>>

----------------------------------------------------------------------------
(* ExploreState.get_cached_score / cache_score *)

Hashes == 1..NumHashes
Depths == 0..MaxDepth
Scores == {0, Inf}

\* No call has returned yet.
NoCall == [op |-> "none"]

\* Mutant: a probe never finds an entry.
GetCachedScore_NeverHits(cache, use, board_hash, depth, p) == <<>>

\* Mutant: the depth of the entry is not compared.
GetCachedScore_AnyDepth(cache, use, board_hash, depth, p) ==
    IF ~use THEN <<>>
    ELSE IF board_hash \in DOMAIN cache /\ p = cache[board_hash][3]
         THEN <<cache[board_hash][1]>>
         ELSE <<>>

\* The Optional[float] get_cached_score returns: <<>> is None, <<s>> is s.
GetCachedScore(cache, use, board_hash, depth, p) ==
    IF ~use THEN <<>>
    ELSE IF board_hash \in DOMAIN cache
         THEN (IF depth <= cache[board_hash][2] /\ p = cache[board_hash][3]
               THEN <<cache[board_hash][1]>>
               ELSE <<>>)
         ELSE <<>>

\* Mutant: an entry of the other side is kept.
CacheScore_KeepsOtherSide(cache, board_hash, depth, p, score) ==
    IF board_hash \in DOMAIN cache /\ cache[board_hash][3] # p
    THEN cache
    ELSE [h \in DOMAIN cache \cup {board_hash} |->
            IF h = board_hash THEN <<score, depth, p>> ELSE cache[h]]

\* Mutant: an entry from a deeper search is kept.
CacheScore_KeepsDeeper(cache, board_hash, depth, p, score) ==
    IF board_hash \in DOMAIN cache /\ cache[board_hash][2] > depth
    THEN cache
    ELSE [h \in DOMAIN cache \cup {board_hash} |->
            IF h = board_hash THEN <<score, depth, p>> ELSE cache[h]]

\* self.score_cache[board_hash] = (score, depth, player)
CacheScore(cache, board_hash, depth, p, score) ==
    [h \in DOMAIN cache \cup {board_hash} |->
        IF h = board_hash THEN <<score, depth, p>> ELSE cache[h]]

----------------------------------------------------------------------------
(* Stack and ExploreState.successor_stack *)

\* A function restricted to the keys D (a dict after del).
Restrict(f, D) == IF D = {} THEN <<>> ELSE [k \in D |-> f[k]]

\* The value of a counting dict at key k, 0 when absent.
Cnt(f, k) == IF k \in DOMAIN f THEN f[k] ELSE 0

\* a == b on two SparseBoard objects, given as object ids.  SparseBoard
\* defines __hash__ and inherits __eq__ from object: two boards are equal
\* only when they are the same object.
ObjectEq(a, b) == a = b

\* hash((board, player)): derived from the hashes of the two elements.
ItemHash(hp, item) == <<HashKey(hp[item[1]]), item[2]>>

\* (board_a, player_a) == (board_b, player_b): elementwise.
ItemEq(a, b) == ObjectEq(a[1], b[1]) /\ a[2] = b[2]

\* The keys of dict d that a lookup of item finds: same hash, and equal.
DictFind(hp, d, item) ==
    {k \in DOMAIN d : ItemHash(hp, k) = ItemHash(hp, item) /\ ItemEq(k, item)}

\* Stack.__init__
EmptyStack == [stack |-> <<>>, lookup |-> <<>>]

\* Stack.push
StackPush(hp, s, item) ==
    LET found == DictFind(hp, s.lookup, item)
    IN  [stack |-> Append(s.stack, item),
         lookup |-> IF found # {}
                    THEN [k \in DOMAIN s.lookup |->
                            IF k \in found THEN s.lookup[k] + 1 ELSE s.lookup[k]]
                    ELSE (item :> 1) @@ s.lookup]

\* Mutant: an entry that reaches count zero is kept in the lookup table.
StackPop_KeepsZero(hp, s) ==
    LET item == s.stack[Len(s.stack)]
        found == DictFind(hp, s.lookup, item)
    IN  <<[stack |-> SubSeq(s.stack, 1, Len(s.stack) - 1),
           lookup |-> [k \in DOMAIN s.lookup |->
                         IF k \in found THEN s.lookup[k] - 1 ELSE s.lookup[k]]],
          item>>

\* Stack.pop: returns <<the stack afterwards, the item popped>>.
StackPop(hp, s) ==
    LET item == s.stack[Len(s.stack)]
        found == DictFind(hp, s.lookup, item)
        decremented == [k \in DOMAIN s.lookup |->
                          IF k \in found THEN s.lookup[k] - 1 ELSE s.lookup[k]]
        kept == {k \in DOMAIN s.lookup : decremented[k] # 0 \/ k \notin found}
    IN  <<[stack |-> SubSeq(s.stack, 1, Len(s.stack) - 1),
           lookup |-> Restrict(decremented, kept)],
          item>>

\* Stack.__contains__
StackContains(hp, s, item) == DictFind(hp, s.lookup, item) # {}

\* ExploreState.push_successor / pop_successor / successor_in_current_path
PushSuccessor(hp, s, successor, p) == StackPush(hp, s, <<successor, p>>)
PopSuccessor(hp, s) == StackPop(hp, s)
SuccessorInCurrentPath(hp, s, successor, p) == StackContains(hp, s, <<successor, p>>)

----------------------------------------------------------------------------
(* ExploreState.strategy *)

\* Mutant: the entry is recorded under the other side.
UpdateStrategy_OtherSide(strat, board_hash, successor, p, score) ==
    LET key == <<board_hash, -p>>
    IN  IF key \notin DOMAIN strat \/ strat[key][2] * p < score * p
        THEN (key :> <<successor, score>>) @@ strat
        ELSE strat

\* Mutant: a recorded move is never replaced.
UpdateStrategy_KeepsFirst(strat, board_hash, successor, p, score) ==
    LET key == <<board_hash, p>>
    IN  IF key \notin DOMAIN strat
        THEN (key :> <<successor, score>>) @@ strat
        ELSE strat

\* Mutant: an equal score replaces the recorded move.
UpdateStrategy_ReplacesEqual(strat, board_hash, successor, p, score) ==
    LET key == <<board_hash, p>>
    IN  IF key \notin DOMAIN strat \/ strat[key][2] * p <= score * p
        THEN (key :> <<successor, score>>) @@ strat
        ELSE strat

\* ExploreState.update_strategy
UpdateStrategy(strat, board_hash, successor, p, score) ==
    LET key == <<board_hash, p>>
    IN  IF key \notin DOMAIN strat \/ strat[key][2] * p < score * p
        THEN (key :> <<successor, score>>) @@ strat
        ELSE strat

\* Mutant: the side is not flipped after a step.
RecoverLoop_NoFlip(strat, board, p, pth, inp) ==
    LET key == <<HashKey(board), p>>
    IN  IF key \notin DOMAIN strat
        THEN [board |-> board, player |-> p, path |-> pth, in_path |-> inp,
              pc |-> "done"]
        ELSE LET next == strat[key][1]
             IN  IF HashKey(next) \in inp
                 THEN [board |-> next, player |-> p, path |-> pth,
                       in_path |-> inp, pc |-> "done"]
                 ELSE [board |-> next, player |-> p,
                       path |-> Append(pth, next),
                       in_path |-> inp \cup {HashKey(next)}, pc |-> "loop"]

\* Mutant: on a repeated hash the walk skips the append and goes on.
RecoverLoop_Continue(strat, board, p, pth, inp) ==
    LET key == <<HashKey(board), p>>
    IN  IF key \notin DOMAIN strat
        THEN [board |-> board, player |-> p, path |-> pth, in_path |-> inp,
              pc |-> "done"]
        ELSE LET next == strat[key][1]
             IN  IF HashKey(next) \in inp
                 THEN [board |-> next, player |-> p, path |-> pth,
                       in_path |-> inp, pc |-> "loop"]
                 ELSE [board |-> next, player |-> -p,
                       path |-> Append(pth, next),
                       in_path |-> inp \cup {HashKey(next)}, pc |-> "loop"]

\* ExploreState.recover_best_path, one evaluation of the while test and, when
\* it holds, of the loop body: the locals afterwards, with pc "loop" (back at
\* the while test) or "done" (the loop was left).
RecoverLoop(strat, board, p, pth, inp) ==
    LET key == <<HashKey(board), p>>
    IN  IF key \notin DOMAIN strat
        THEN [board |-> board, player |-> p, path |-> pth, in_path |-> inp,
              pc |-> "done"]
        ELSE LET next == strat[key][1]
             IN  IF HashKey(next) \in inp
                 THEN [board |-> next, player |-> p, path |-> pth,
                       in_path |-> inp, pc |-> "done"]
                 ELSE [board |-> next, player |-> -p,
                       path |-> Append(pth, next),
                       in_path |-> inp \cup {HashKey(next)}, pc |-> "loop"]

----------------------------------------------------------------------------
(* The state of an ExploreState right after construction *)

BoardInit ==
    /\ sparse_board = <<>>
    /\ player = 1
    /\ successors = <<>>
    /\ value = 0
    /\ pc = "idle"

CacheInit ==
    /\ score_cache = <<>>
    /\ use_score_cache = TRUE
    /\ cache_hits = 0
    /\ last_call = NoCall

StackInit ==
    /\ heap = <<>>
    /\ successor_stack = EmptyStack
    /\ pending = <<>>
    /\ stack_ret = NoCall

PathInit ==
    /\ strategy = <<>>
    /\ updates = 0
    /\ path = <<>>
    /\ in_path = {}
    /\ rboard = <<>>
    /\ rplayer = 1
    /\ rroot = <<>>
    /\ rpc = "idle"

SearchInit ==
    /\ key_order = <<>>
    /\ frames = <<>>
    /\ node_call = NoCall
    /\ node_ret = 0
    /\ spc = "idle"
    /\ max_depth = 0
    /\ root_score = 0
    /\ pass = 1
    /\ first = NoCall
    /\ recurred = FALSE

----------------------------------------------------------------------------
(* The move-generation state machine *)

Init ==
    /\ sparse_board \in StartBoards
    /\ player \in {1, -1}
    /\ successors = <<>>
    /\ value = 0
    /\ pc = "idle"
    /\ score_cache = <<>>
    /\ use_score_cache = TRUE
    /\ cache_hits = 0
    /\ last_call = NoCall
    /\ StackInit
    /\ PathInit
    /\ SearchInit

\* successors = board.get_successors(player)
CallGetSuccessors ==
    /\ pc = "idle"
    /\ successors' = GetSuccessors(sparse_board, player)
    /\ pc' = "generated"
    /\ UNCHANGED <<sparse_board, player, value>>
    /\ UNCHANGED <<cache_vars, stack_vars, path_vars, search_vars>>

\* value, successors = state.get_terminal_value_and_succ(board, player)
CallGetTerminalValueAndSucc ==
    /\ pc = "idle"
    /\ LET ret == GetTerminalValueAndSucc(sparse_board, player)
       IN  value' = ret[1] /\ successors' = ret[2]
    /\ pc' = "scored"
    /\ UNCHANGED <<sparse_board, player>>
    /\ UNCHANGED <<cache_vars, stack_vars, path_vars, search_vars>>

\* The turn is played: one of the successors becomes the position and the
\* other side is to move.
PlayTurn ==
    /\ pc \in {"generated", "scored"}
    /\ \E i \in 1..Len(successors) : sparse_board' = successors[i]
    /\ player' = -player
    /\ successors' = <<>>
    /\ value' = 0
    /\ pc' = "idle"
    /\ UNCHANGED <<cache_vars, stack_vars, path_vars, search_vars>>

Next == CallGetSuccessors \/ CallGetTerminalValueAndSucc \/ PlayTurn

Spec == Init /\ [][Next]_vars

----------------------------------------------------------------------------
(* The evaluation state machine: evaluate and utility are called on a      *)
(* starting position with a piece on it (on the empty board the division   *)
(* raises ZeroDivisionError and there is no value).                        *)

\* value = board.evaluate()
CallEvaluate ==
    /\ DOMAIN sparse_board # {}
    /\ value' = Evaluate(sparse_board)
    /\ last_call' = [op |-> "evaluate", ret |-> Evaluate(sparse_board)]
    /\ pc' = "evaluated"
    /\ UNCHANGED <<sparse_board, player, successors>>
    /\ UNCHANGED <<score_cache, use_score_cache, cache_hits>>
    /\ UNCHANGED <<stack_vars, path_vars, search_vars>>

\* value = board.utility()
CallUtility ==
    /\ DOMAIN sparse_board # {}
    /\ value' = Utility(sparse_board)
    /\ last_call' = [op |-> "utility", ret |-> Utility(sparse_board)]
    /\ pc' = "evaluated"
    /\ UNCHANGED <<sparse_board, player, successors>>
    /\ UNCHANGED <<score_cache, use_score_cache, cache_hits>>
    /\ UNCHANGED <<stack_vars, path_vars, search_vars>>

NextEvaluate == CallEvaluate \/ CallUtility

SpecEvaluate == Init /\ [][NextEvaluate]_vars

----------------------------------------------------------------------------
(* The score-cache state machine *)

InitCache ==
    /\ sparse_board = <<>>
    /\ player = 1
    /\ successors = <<>>
    /\ value = 0
    /\ pc = "idle"
    /\ score_cache = <<>>
    /\ use_score_cache \in BOOLEAN
    /\ cache_hits = 0
    /\ last_call = NoCall
    /\ StackInit
    /\ PathInit
    /\ SearchInit

\* state.get_cached_score(board, board_hash, depth, player)
CallGetCachedScore ==
    /\ cache_hits < MaxHits
    /\ \E h \in Hashes, d \in Depths, p \in {1, -1} :
        LET ret == GetCachedScore(score_cache, use_score_cache, h, d, p)
        IN  /\ cache_hits' = IF ret # <<>> THEN cache_hits + 1 ELSE cache_hits
            /\ last_call' = [op |-> "get_cached_score", board_hash |-> h,
                             depth |-> d, player |-> p, ret |-> ret]
    /\ UNCHANGED <<score_cache, use_score_cache>>
    /\ UNCHANGED <<board_vars, stack_vars, path_vars, search_vars>>

\* state.cache_score(board, board_hash, depth, player, score)
CallCacheScore ==
    /\ \E h \in Hashes, d \in Depths, p \in {1, -1}, s \in Scores :
        /\ score_cache' = CacheScore(score_cache, h, d, p, s)
        /\ last_call' = [op |-> "cache_score", board_hash |-> h, depth |-> d,
                         player |-> p, score |-> s,
                         old |-> IF h \in DOMAIN score_cache
                                 THEN <<score_cache[h]>> ELSE <<>>]
    /\ UNCHANGED <<use_score_cache, cache_hits>>
    /\ UNCHANGED <<board_vars, stack_vars, path_vars, search_vars>>

NextCache == CallGetCachedScore \/ CallCacheScore

SpecCache == InitCache /\ [][NextCache]_vars

----------------------------------------------------------------------------
(* The search-stack state machine *)

\* Two kings far apart: each side can shuffle its king to and fro.
ShuffleBoard ==
    Board({<< <<0, 0>>, 2>>, << <<4, 4>>, -2>>})

\* The items that can be built from the live objects.
Items_(hp) == (DOMAIN hp) \X {1, -1}

InitStack ==
    /\ BoardInit
    /\ CacheInit
    /\ StackInit
    /\ PathInit
    /\ SearchInit

\* board = SparseBoard.read_from_string(...): a new object holding the input.
ReadBoard ==
    /\ Len(heap) < MaxObjects
    /\ heap' = Append(heap, ShuffleBoard)
    /\ UNCHANGED <<successor_stack, pending, stack_ret>>
    /\ UNCHANGED <<board_vars, cache_vars, path_vars, search_vars>>

\* board.get_successors(player): every board of the list is a new object;
\* one of them is kept.
GenerateSuccessor ==
    /\ Len(heap) < MaxObjects
    /\ \E obj \in DOMAIN heap, p \in {1, -1} :
        LET succ == GetSuccessors(heap[obj], p)
        IN  \E i \in 1..Len(succ) : heap' = Append(heap, succ[i])
    /\ UNCHANGED <<successor_stack, pending, stack_ret>>
    /\ UNCHANGED <<board_vars, cache_vars, path_vars, search_vars>>

\* state.push_successor(successor, player)
CallPushSuccessor ==
    /\ Len(successor_stack.stack) < MaxStack
    /\ \E item \in Items_(heap) :
        /\ successor_stack' = PushSuccessor(heap, successor_stack, item[1], item[2])
        /\ pending' = (item :> Cnt(pending, item) + 1) @@ pending
        /\ stack_ret' = [op |-> "push_successor", successor |-> item[1],
                         player |-> item[2]]
    /\ UNCHANGED heap
    /\ UNCHANGED <<board_vars, cache_vars, path_vars, search_vars>>

\* state.pop_successor()
CallPopSuccessor ==
    /\ Len(successor_stack.stack) > 0
    /\ LET ret == PopSuccessor(heap, successor_stack)
       IN  /\ successor_stack' = ret[1]
           /\ pending' = IF Cnt(pending, ret[2]) = 1
                         THEN Restrict(pending, DOMAIN pending \ {ret[2]})
                         ELSE (ret[2] :> Cnt(pending, ret[2]) - 1) @@ pending
           /\ stack_ret' = [op |-> "pop_successor", ret |-> ret[2]]
    /\ UNCHANGED heap
    /\ UNCHANGED <<board_vars, cache_vars, path_vars, search_vars>>

\* state.successor_in_current_path(successor, player)
CallSuccessorInCurrentPath ==
    /\ \E item \in Items_(heap) :
        stack_ret' = [op |-> "successor_in_current_path",
                      successor |-> item[1], player |-> item[2],
                      ret |-> SuccessorInCurrentPath(heap, successor_stack,
                                                     item[1], item[2])]
    /\ UNCHANGED <<heap, successor_stack, pending>>
    /\ UNCHANGED <<board_vars, cache_vars, path_vars, search_vars>>

NextStack ==
    \/ ReadBoard
    \/ GenerateSuccessor
    \/ CallPushSuccessor
    \/ CallPopSuccessor
    \/ CallSuccessorInCurrentPath

SpecStack == InitStack /\ [][NextStack]_vars

----------------------------------------------------------------------------
(* The strategy-map state machine *)

\* A line of play of the two kings: the input, Red's move, Black's answer.
PathBoards ==
    LET a == ShuffleBoard
        b == GetSuccessors(a, 1)[1]
        c == GetSuccessors(b, -1)[1]
    IN  {a, b, c}

InitPath ==
    /\ BoardInit
    /\ CacheInit
    /\ StackInit
    /\ PathInit
    /\ SearchInit

\* state.update_strategy(current_board, hash(current_board), successor,
\*                       player, score)
CallUpdateStrategy ==
    /\ rpc = "idle"
    /\ updates < MaxUpdates
    /\ \E current_board \in PathBoards, successor \in PathBoards,
          p \in {1, -1}, score \in Scores :
        strategy' = UpdateStrategy(strategy, HashKey(current_board),
                                   successor, p, score)
    /\ updates' = updates + 1
    /\ UNCHANGED <<path, in_path, rboard, rplayer, rroot, rpc>>
    /\ UNCHANGED <<board_vars, cache_vars, stack_vars, search_vars>>

\* state.recover_best_path(board, player): entry, up to the while test.
CallRecoverBestPath ==
    /\ rpc = "idle"
    /\ \E board \in PathBoards, p \in {1, -1} :
        /\ path' = <<board>>
        /\ in_path' = {}
        /\ rboard' = board
        /\ rplayer' = p
        /\ rroot' = <<board, p>>
    /\ rpc' = "loop"
    /\ UNCHANGED <<strategy, updates>>
    /\ UNCHANGED <<board_vars, cache_vars, stack_vars, search_vars>>

\* recover_best_path: the while test and one pass through the loop body.
RecoverStep ==
    /\ rpc = "loop"
    /\ LET st == RecoverLoop(strategy, rboard, rplayer, path, in_path)
       IN  /\ rboard' = st.board
           /\ rplayer' = st.player
           /\ path' = st.path
           /\ in_path' = st.in_path
           /\ rpc' = st.pc
    /\ UNCHANGED <<strategy, updates, rroot>>
    /\ UNCHANGED <<board_vars, cache_vars, stack_vars, search_vars>>

NextPath == CallUpdateStrategy \/ CallRecoverBestPath \/ RecoverStep

SpecPath == InitPath /\ [][NextPath]_vars

\* The loop runs to its end once recover_best_path was called: the program
\* is single-threaded and nothing else is scheduled.
SpecPathFair == SpecPath /\ WF_vars(RecoverStep)

----------------------------------------------------------------------------
(* The search: depth-limited minimax with alpha-beta pruning over the      *)
(* ExploreState methods.  The solver itself is native code; its control    *)
(* flow follows the design of the search engine, the methods it calls are  *)
(* the ones modelled above.                                                *)

Max(a, b) == IF a >= b THEN a ELSE b
Min(a, b) == IF a <= b THEN a ELSE b

\* Mutant: the children are searched with the depth of their parent.
ChildDepth_Same(depth) == depth

\* The remaining depth of the children of a node.
ChildDepth(depth) == depth - 1

\* The child x put into a list ordered best first for side, behind the
\* children that evaluate the same (the sort is stable).
InsertSorted(hp, sorted, x, side) ==
    LET worse == {j \in DOMAIN sorted :
                    Evaluate(hp[sorted[j]]) * side < Evaluate(hp[x]) * side}
        at == IF worse = {} THEN Len(sorted) + 1
              ELSE CHOOSE j \in worse : \A k \in worse : j <= k
    IN  SubSeq(sorted, 1, at - 1) \o <<x>> \o SubSeq(sorted, at, Len(sorted))

\* The children ordered by evaluate(): descending for Red, ascending for
\* Black.
RECURSIVE OrderChildren(_, _, _, _)
OrderChildren(hp, children, side, sorted) ==
    IF children = <<>> THEN sorted
    ELSE OrderChildren(hp, Tail(children), side,
                       InsertSorted(hp, sorted, Head(children), side))

\* A red man that cannot move: its one forward neighbour on the board is a
\* black man with an occupied square behind it.
BlockedBoard ==
    Board({<< <<0, 2>>, 1>>, << <<1, 1>>, -1>>, << <<2, 0>>, -1>>})

\* Two red men against a black king.
ChaseBoard ==
    Board({<< <<1, 1>>, 1>>, << <<3, 1>>, -2>>, << <<0, 2>>, 1>>})

\* A red man and a red king against a black man about to be crowned.
RaceBoard ==
    Board({<< <<2, 0>>, -1>>, << <<0, 4>>, 1>>, << <<4, 4>>, 2>>})

\* The roots searched: the positions above and every position of one piece.
SearchRoots ==
    {ShuffleBoard, CorneredBoard, BlockedBoard, ChaseBoard, RaceBoard}
        \cup UNION {[{sq} -> PieceValues] : sq \in PlaySquares}

TopFrame == frames[Len(frames)]

InitSearch ==
    /\ BoardInit
    /\ CacheInit
    /\ StackInit
    /\ PathInit
    /\ SearchInit

\* search(root, max_depth): a new ExploreState, the root with Red to move
\* on the search stack, and the node call for the root.
StartSearch ==
    /\ spc = "idle"
    /\ \E root \in SearchRoots, D \in 0..MaxSearchDepth :
        /\ heap' = <<root>>
        /\ key_order' = <<Items(root)>>
        /\ successor_stack' = PushSuccessor(<<root>>, successor_stack, 1, 1)
        /\ node_call' = [board |-> 1, side |-> 1, depth |-> D,
                         alpha |-> -Inf, beta |-> Inf]
        /\ max_depth' = D
    /\ spc' = "enter"
    /\ UNCHANGED <<frames, node_ret, root_score, pass, first, recurred>>
    /\ UNCHANGED <<pending, stack_ret>>
    /\ UNCHANGED <<board_vars, cache_vars, path_vars>>

\* A node call, up to the loop over the children: the terminal test, the
\* cache probe, the depth cutoff, the cycle guard and the move ordering.
EnterNode ==
    /\ spc = "enter"
    /\ LET board == heap[node_call.board]
           board_hash == HashKey(board)
           tv == GetTerminalValueAndSucc(board, node_call.side)
           cached == GetCachedScore(score_cache, use_score_cache, board_hash,
                                    node_call.depth, node_call.side)
           gen == GetSuccessorsOrdered(board, key_order[node_call.board],
                                       node_call.side)
           new_heap == heap \o [i \in 1..Len(gen) |-> gen[i][1]]
           ids == [i \in 1..Len(gen) |-> Len(heap) + i]
           kept == SelectSeq(ids, LAMBDA c :
                       ~SuccessorInCurrentPath(new_heap, successor_stack, c,
                                               -node_call.side))
       IN  IF tv[1] # 0
           THEN /\ node_ret' = tv[1]
                /\ spc' = "return"
                /\ UNCHANGED <<heap, key_order, frames, cache_hits>>
           ELSE IF cached # <<>>
           THEN /\ node_ret' = cached[1]
                /\ cache_hits' = cache_hits + 1
                /\ spc' = "return"
                /\ UNCHANGED <<heap, key_order, frames>>
           ELSE IF node_call.depth = 0
           THEN /\ node_ret' = Utility(board)
                /\ spc' = "return"
                /\ UNCHANGED <<heap, key_order, frames, cache_hits>>
           ELSE /\ heap' = new_heap
                /\ key_order' = key_order \o [i \in 1..Len(gen) |-> gen[i][2]]
                /\ frames' = Append(frames,
                       [board |-> node_call.board, side |-> node_call.side,
                        depth |-> node_call.depth, alpha |-> node_call.alpha,
                        beta |-> node_call.beta,
                        best |-> -node_call.side * Inf,
                        children |-> OrderChildren(new_heap, kept,
                                                   node_call.side, <<>>),
                        idx |-> 1])
                /\ spc' = "expand"
                /\ UNCHANGED <<node_ret, cache_hits>>
    /\ UNCHANGED <<node_call, max_depth, root_score, pass, first, recurred>>
    /\ UNCHANGED <<successor_stack, pending, stack_ret>>
    /\ UNCHANGED <<score_cache, use_score_cache, last_call>>
    /\ UNCHANGED <<board_vars, path_vars>>

\* The next child is pushed on the search stack and its node call is made,
\* with the side negated.
ExpandChild ==
    /\ spc = "expand"
    /\ TopFrame.idx <= Len(TopFrame.children)
    /\ LET child == TopFrame.children[TopFrame.idx]
           stack == successor_stack.stack
       IN  /\ successor_stack' = PushSuccessor(heap, successor_stack, child,
                                               -TopFrame.side)
           /\ recurred' = (recurred \/ \E i \in DOMAIN stack :
                                /\ heap[stack[i][1]] = heap[child]
                                /\ stack[i][2] = -TopFrame.side)
           /\ node_call' = [board |-> child, side |-> -TopFrame.side,
                            depth |-> ChildDepth(TopFrame.depth),
                            alpha |-> TopFrame.alpha, beta |-> TopFrame.beta]
    /\ spc' = "enter"
    /\ UNCHANGED <<key_order, frames, node_ret, max_depth, root_score, pass, first>>
    /\ UNCHANGED <<heap, pending, stack_ret>>
    /\ UNCHANGED <<board_vars, cache_vars, path_vars>>

\* A child returned: it is popped from the search stack and its score is
\* combined into the frame; a better score is recorded as the best move and
\* tightens alpha (Red) or beta (Black); the loop is left when alpha >= beta.
ReturnToParent ==
    /\ spc = "return"
    /\ frames # <<>>
    /\ LET top == TopFrame
           child == top.children[top.idx]
           improved == IF top.side = 1 THEN node_ret > top.best
                       ELSE node_ret < top.best
           best == IF improved THEN node_ret ELSE top.best
           alpha == IF top.side = 1 THEN Max(top.alpha, best) ELSE top.alpha
           beta == IF top.side = -1 THEN Min(top.beta, best) ELSE top.beta
       IN  /\ successor_stack' = PopSuccessor(heap, successor_stack)[1]
           /\ strategy' = IF improved
                          THEN UpdateStrategy(strategy, HashKey(heap[top.board]),
                                              heap[child], top.side, node_ret)
                          ELSE strategy
           /\ frames' = [frames EXCEPT ![Len(frames)] =
                  [top EXCEPT !.best = best, !.alpha = alpha, !.beta = beta,
                              !.idx = IF alpha >= beta
                                      THEN Len(top.children) + 1
                                      ELSE top.idx + 1]]
    /\ spc' = "expand"
    /\ UNCHANGED <<key_order, node_call, node_ret, max_depth, root_score, pass,
                   first, recurred>>
    /\ UNCHANGED <<heap, pending, stack_ret>>
    /\ UNCHANGED <<updates, path, in_path, rboard, rplayer, rroot, rpc>>
    /\ UNCHANGED <<board_vars, cache_vars>>

\* The loop over the children is over: the result is stored in the score
\* cache and returned.
FinishNode ==
    /\ spc = "expand"
    /\ TopFrame.idx > Len(TopFrame.children)
    /\ score_cache' = CacheScore(score_cache, HashKey(heap[TopFrame.board]),
                                 TopFrame.depth, TopFrame.side, TopFrame.best)
    /\ last_call' = [op |-> "cache_score",
                     board_hash |-> HashKey(heap[TopFrame.board]),
                     depth |-> TopFrame.depth, player |-> TopFrame.side,
                     score |-> TopFrame.best,
                     old |-> IF HashKey(heap[TopFrame.board]) \in DOMAIN score_cache
                             THEN <<score_cache[HashKey(heap[TopFrame.board])]>>
                             ELSE <<>>]
    /\ node_ret' = TopFrame.best
    /\ frames' = SubSeq(frames, 1, Len(frames) - 1)
    /\ spc' = "return"
    /\ UNCHANGED <<key_order, node_call, max_depth, root_score, pass, first,
                   recurred>>
    /\ UNCHANGED <<use_score_cache, cache_hits>>
    /\ UNCHANGED <<board_vars, stack_vars, path_vars>>

\* The node call for the root returned: the root leaves the search stack
\* and recover_best_path(root, 1) is called.
ReturnToCaller ==
    /\ spc = "return"
    /\ frames = <<>>
    /\ root_score' = node_ret
    /\ successor_stack' = PopSuccessor(heap, successor_stack)[1]
    /\ path' = <<heap[1]>>
    /\ in_path' = {}
    /\ rboard' = heap[1]
    /\ rplayer' = 1
    /\ rroot' = <<heap[1], 1>>
    /\ rpc' = "loop"
    /\ spc' = "returned"
    /\ UNCHANGED <<key_order, frames, node_call, node_ret, max_depth, pass,
                   first, recurred>>
    /\ UNCHANGED <<heap, pending, stack_ret>>
    /\ UNCHANGED <<strategy, updates>>
    /\ UNCHANGED <<board_vars, cache_vars>>

\* The same root is searched again to the same depth on a new ExploreState
\* built with use_score_cache = False.
SecondPass ==
    /\ spc = "returned"
    /\ rpc = "done"
    /\ pass = 1
    /\ first' = [root_score |-> root_score, cache_hits |-> cache_hits,
                 path |-> path]
    /\ pass' = 2
    /\ score_cache' = <<>>
    /\ use_score_cache' = FALSE
    /\ cache_hits' = 0
    /\ strategy' = <<>>
    /\ heap' = <<heap[1]>>
    /\ key_order' = <<key_order[1]>>
    /\ successor_stack' = PushSuccessor(<<heap[1]>>, EmptyStack, 1, 1)
    /\ node_call' = [board |-> 1, side |-> 1, depth |-> max_depth,
                     alpha |-> -Inf, beta |-> Inf]
    /\ path' = <<>>
    /\ in_path' = {}
    /\ rboard' = <<>>
    /\ rplayer' = 1
    /\ rroot' = <<>>
    /\ rpc' = "idle"
    /\ spc' = "enter"
    /\ UNCHANGED <<frames, node_ret, max_depth, root_score, recurred>>
    /\ UNCHANGED <<pending, stack_ret, updates, last_call>>
    /\ UNCHANGED board_vars

NextSearch ==
    \/ StartSearch
    \/ EnterNode
    \/ ExpandChild
    \/ ReturnToParent
    \/ FinishNode
    \/ ReturnToCaller
    \/ RecoverStep
    \/ SecondPass

SpecSearch == InitSearch /\ [][NextSearch]_vars

\* A node call that was made is carried out: control leaves the entry of
\* the node.  (EnterNode has no guard but spc = "enter" and every EnterNode
\* step moves spc on.)
LeaveEntry == spc = "enter" /\ spc' \in {"return", "expand"}

\* The search is one sequential computation: every step that can be taken
\* is taken.
SpecSearchFair ==
    /\ SpecSearch
    /\ WF_vars(StartSearch \/ ExpandChild \/ ReturnToParent \/ FinishNode
                 \/ ReturnToCaller \/ RecoverStep \/ SecondPass)
    /\ WF_spc(LeaveEntry)

----------------------------------------------------------------------------
(* SparseBoard.__hash__, __str__ and read_from_string, on texts.  A text   *)
(* is a sequence of one-character strings.                                 *)

\* a < b for two (square, value) items as Python orders tuples: by x, then
\* y, then value.
ItemLess(a, b) ==
    \/ a[1][1] < b[1][1]
    \/ a[1][1] = b[1][1] /\ a[1][2] < b[1][2]
    \/ a[1] = b[1] /\ a[2] < b[2]

\* Mutant: the items are serialized in the iteration order of the dict.
SortedItems_DictOrder(board, items) ==
    [i \in 1..Len(items) |-> <<items[i], board[items[i]]>>]

\* sorted(self.sparse_board.items()) for a dict that iterates in the order
\* items: every item at the place given by the number of items below it.
SortedItems(board, items) ==
    LET its == [i \in 1..Len(items) |-> <<items[i], board[items[i]]>>]
        rank(i) == 1 + Cardinality({j \in 1..Len(its) : ItemLess(its[j], its[i])})
    IN  [k \in 1..Len(its) |-> its[CHOOSE i \in 1..Len(its) : rank(i) = k]]

DigitChars == <<"0", "1", "2", "3", "4", "5", "6", "7", "8", "9">>

\* The decimal text of an integer, as json.dumps writes it.
RECURSIVE NatText(_)
NatText(n) ==
    IF n < 10 THEN <<DigitChars[n + 1]>>
    ELSE NatText(n \div 10) \o <<DigitChars[(n % 10) + 1]>>
IntText(n) == IF n < 0 THEN <<"-">> \o NatText(-n) ELSE NatText(n)

\* json.dumps of one ((x, y), value) item: [[x, y], value]
ItemText(item) ==
    <<"[", "[">> \o IntText(item[1][1]) \o <<",", " ">> \o IntText(item[1][2])
        \o <<"]", ",", " ">> \o IntText(item[2]) \o <<"]">>

\* json.dumps of a tuple of items: the items separated by ", " in brackets.
JsonDumps(t) ==
    <<"[">> \o Flatten([i \in 1..Len(t) |->
                           (IF i > 1 THEN <<",", " ">> ELSE <<>>) \o ItemText(t[i])])
        \o <<"]">>

\* The text that __hash__ feeds to hash().
HashText(board, items) == JsonDumps(SortedItems(board, items))

\* int_to_char and char_to_int
IntToChar == (0 :> ".") @@ (1 :> "r") @@ (2 :> "R") @@ (-1 :> "b") @@ (-2 :> "B")
CharToInt == ("r" :> 1) @@ ("R" :> 2) @@ ("b" :> -1) @@ ("B" :> -2)

\* Mutant: the text is written column by column.
Str_ColumnMajor(board) ==
    Flatten([i \in 1..width |->
        [j \in 1..height |-> IntToChar[Get(board, <<i - 1, j - 1>>)]] \o <<"\n">>])

\* __str__: for every y a row of the characters of (0, y) .. (width-1, y),
\* ended by a newline.
Str(board) ==
    Flatten([j \in 1..height |->
        [i \in 1..width |-> IntToChar[Get(board, <<i - 1, j - 1>>)]] \o <<"\n">>])

\* string.splitlines(): the lines of the text without their line ends.
RECURSIVE SplitLines(_, _, _)
SplitLines(text, line, lines) ==
    IF text = <<>> THEN (IF line = <<>> THEN lines ELSE Append(lines, line))
    ELSE IF Head(text) = "\n" THEN SplitLines(Tail(text), <<>>, Append(lines, line))
    ELSE SplitLines(Tail(text), Append(line, Head(text)), lines)

\* line.rstrip(): the line without its trailing white space.
RECURSIVE RStrip(_)
RStrip(line) ==
    IF line # <<>> /\ line[Len(line)] \in {" ", "\t", "\r", "\n"}
    THEN RStrip(SubSeq(line, 1, Len(line) - 1))
    ELSE line

\* read_from_string: the sparse_board of the board read; its keys are
\* inserted row by row, which is the order Items lists them in.
ReadFromString(string) ==
    LET lines == SplitLines(string, <<>>, <<>>)
        cells == UNION {{<<x - 1, y - 1>> :
                            x \in {x \in 1..Len(RStrip(lines[y])) :
                                      RStrip(lines[y])[x] # "."}} :
                        y \in 1..Len(lines)}
    IN  [c \in cells |-> CharToInt[RStrip(lines[c[2] + 1])[c[1] + 1]]]

----------------------------------------------------------------------------
(* The board-object state machine: boards are read, generated from one     *)
(* another and written out and read back; their hashes are taken.          *)

\* Largest number of board objects made in one run.
MaxBoards == 3

\* The boards read first.
TextBoards == SearchRoots \cup ScenarioBoards

\* The object made last.
LastObject == Len(heap)

InitText ==
    /\ BoardInit
    /\ CacheInit
    /\ StackInit
    /\ PathInit
    /\ SearchInit

\* board = SparseBoard.read_from_string(...): the first object.
ReadRoot ==
    /\ heap = <<>>
    /\ \E b \in TextBoards :
        /\ heap' = <<b>>
        /\ key_order' = <<Items(b)>>
    /\ last_call' = NoCall
    /\ UNCHANGED <<score_cache, use_score_cache, cache_hits>>
    /\ UNCHANGED <<successor_stack, pending, stack_ret>>
    /\ UNCHANGED <<frames, node_call, node_ret, spc, max_depth, root_score,
                   pass, first, recurred>>
    /\ UNCHANGED <<board_vars, path_vars>>

\* One board of heap[LastObject].get_successors(p) is kept as a new object.
GenerateNext ==
    /\ 0 < Len(heap) /\ Len(heap) < MaxBoards
    /\ \E p \in {1, -1} :
        LET gen == GetSuccessorsOrdered(heap[LastObject], key_order[LastObject], p)
        IN  \E i \in 1..Len(gen) :
                /\ heap' = Append(heap, gen[i][1])
                /\ key_order' = Append(key_order, gen[i][2])
    /\ last_call' = NoCall
    /\ UNCHANGED <<score_cache, use_score_cache, cache_hits>>
    /\ UNCHANGED <<successor_stack, pending, stack_ret>>
    /\ UNCHANGED <<frames, node_call, node_ret, spc, max_depth, root_score,
                   pass, first, recurred>>
    /\ UNCHANGED <<board_vars, path_vars>>

\* SparseBoard.read_from_string(str(heap[LastObject])): a new object.
Reread ==
    /\ 0 < Len(heap) /\ Len(heap) < MaxBoards
    /\ LET string == Str(heap[LastObject])
           board == ReadFromString(string)
       IN  /\ heap' = Append(heap, board)
           /\ key_order' = Append(key_order, Items(board))
           /\ last_call' = [op |-> "read_from_string", string |-> string,
                            source |-> LastObject]
    /\ UNCHANGED <<score_cache, use_score_cache, cache_hits>>
    /\ UNCHANGED <<successor_stack, pending, stack_ret>>
    /\ UNCHANGED <<frames, node_call, node_ret, spc, max_depth, root_score,
                   pass, first, recurred>>
    /\ UNCHANGED <<board_vars, path_vars>>

\* A board is read from the text of heap[LastObject] with the letter of one
\* piece changed in case: the same squares, one piece of the other rank.
ReadOtherRank ==
    /\ 0 < Len(heap) /\ Len(heap) < MaxBoards
    /\ \E sq \in DOMAIN heap[LastObject] :
        LET val == heap[LastObject][sq]
            other == IF Abs(val) = 1 THEN val * 2 ELSE val \div 2
            board == [heap[LastObject] EXCEPT ![sq] = other]
        IN  /\ heap' = Append(heap, board)
            /\ key_order' = Append(key_order, Items(board))
    /\ last_call' = NoCall
    /\ UNCHANGED <<score_cache, use_score_cache, cache_hits>>
    /\ UNCHANGED <<successor_stack, pending, stack_ret>>
    /\ UNCHANGED <<frames, node_call, node_ret, spc, max_depth, root_score,
                   pass, first, recurred>>
    /\ UNCHANGED <<board_vars, path_vars>>

\* hash(board) for every live object: the texts handed to hash().
CallHash ==
    /\ heap # <<>>
    /\ last_call' = [op |-> "hash",
                     ret |-> [i \in DOMAIN heap |-> HashText(heap[i], key_order[i])]]
    /\ UNCHANGED <<score_cache, use_score_cache, cache_hits>>
    /\ UNCHANGED <<board_vars, stack_vars, path_vars, search_vars>>

NextText == ReadRoot \/ GenerateNext \/ Reread \/ ReadOtherRank \/ CallHash

SpecText == InitText /\ [][NextText]_vars

----------------------------------------------------------------------------
(* The object state machine: get_successors is called on the objects alive *)
(* and one of the boards it returns is kept.  heap[i] is the sparse_board  *)
(* of object i and key_order[i] the order of its keys.                     *)

\* obj.get_successors(p) for an object alive; the caller keeps one of the
\* returned boards, if there is one.
CallGetSuccessorsOn ==
    /\ 0 < Len(heap) /\ Len(heap) < MaxBoards
    /\ \E obj \in DOMAIN heap, p \in {1, -1} :
        \E r \in {GetSuccessorsOn(NewStore(heap, key_order), obj, p)} :
            /\ last_call' = [op |-> "get_successors", self |-> obj, player |-> p,
                             before |-> NewStore(heap, key_order),
                             after |-> r[1], ret |-> r[2]]
            /\ \/ /\ r[2] = <<>>
                  /\ UNCHANGED <<heap, key_order>>
               \/ \E i \in DOMAIN r[2] :
                    /\ heap' = Append(heap, DictOf(r[1], r[2][i]).map)
                    /\ key_order' = Append(key_order, DictOf(r[1], r[2][i]).keys)
    /\ UNCHANGED <<score_cache, use_score_cache, cache_hits>>
    /\ UNCHANGED <<successor_stack, pending, stack_ret>>
    /\ UNCHANGED <<frames, node_call, node_ret, spc, max_depth, root_score,
                   pass, first, recurred>>
    /\ UNCHANGED <<board_vars, path_vars>>

NextObjects ==
    \/ ReadRoot
    \/ CallGetSuccessorsOn

SpecObjects == InitText /\ [][NextObjects]_vars

----------------------------------------------------------------------------
(* The first-call state machine: get_successors is called once, for either *)
(* side, on any of the starting positions.                                 *)

\* board = SparseBoard.read_from_string(...): the first object, any of the
\* starting positions.
ReadStart ==
    /\ heap = <<>>
    /\ \E b \in StartBoards \cup TextBoards :
        /\ heap' = <<b>>
        /\ key_order' = <<Items(b)>>
    /\ last_call' = NoCall
    /\ UNCHANGED <<score_cache, use_score_cache, cache_hits>>
    /\ UNCHANGED <<successor_stack, pending, stack_ret>>
    /\ UNCHANGED <<frames, node_call, node_ret, spc, max_depth, root_score,
                   pass, first, recurred>>
    /\ UNCHANGED <<board_vars, path_vars>>

\* heap[1].get_successors(p), the first call on the object.
CallGetSuccessorsOnce ==
    /\ Len(heap) = 1
    /\ last_call = NoCall
    /\ \E p \in {1, -1} :
        \E r \in {GetSuccessorsOn(NewStore(heap, key_order), 1, p)} :
            last_call' = [op |-> "get_successors", self |-> 1, player |-> p,
                          before |-> NewStore(heap, key_order),
                          after |-> r[1], ret |-> r[2]]
    /\ UNCHANGED <<score_cache, use_score_cache, cache_hits>>
    /\ UNCHANGED <<stack_vars, search_vars>>
    /\ UNCHANGED <<board_vars, path_vars>>

NextFirstCall ==
    \/ ReadStart
    \/ CallGetSuccessorsOnce

SpecFirstCall == InitText /\ [][NextFirstCall]_vars

----------------------------------------------------------------------------
(* The strategy-update state machine: update_strategy is called again and  *)
(* again for the keys of one position; the calls made are kept.            *)

\* Largest number of update_strategy calls in one run.
MaxSubmitted == 3

\* The scores submitted: a loss, a heuristic value, a win.
StrategyScores == {-Inf, 0, Inf}

\* The position the calls are made for, and the successors submitted: the
\* moves Red has in it.
StrategyBoard == RaceBoard
StrategyMoves == Range(GetSuccessors(StrategyBoard, 1))

\* No update_strategy call made yet.
NoUpdates == [op |-> "update_strategy", log |-> <<>>]

InitStrategy ==
    /\ BoardInit
    /\ score_cache = <<>>
    /\ use_score_cache = TRUE
    /\ cache_hits = 0
    /\ last_call = NoUpdates
    /\ StackInit
    /\ PathInit
    /\ SearchInit

\* state.update_strategy(board, hash(board), successor, player, score)
SubmitMove ==
    /\ Len(last_call.log) < MaxSubmitted
    /\ \E successor \in StrategyMoves, p \in {1, -1}, score \in StrategyScores :
        /\ strategy' = UpdateStrategy(strategy, HashKey(StrategyBoard),
                                      successor, p, score)
        /\ last_call' = [last_call EXCEPT !.log =
                            Append(@, [key |-> <<HashKey(StrategyBoard), p>>,
                                       successor |-> successor,
                                       score |-> score])]
    /\ UNCHANGED <<updates, path, in_path, rboard, rplayer, rroot, rpc>>
    /\ UNCHANGED <<score_cache, use_score_cache, cache_hits>>
    /\ UNCHANGED <<board_vars, stack_vars, search_vars>>

NextStrategy == SubmitMove

SpecStrategy == InitStrategy /\ [][NextStrategy]_vars

----------------------------------------------------------------------------
(* The rules of the game stated on positions, for the properties below.    *)
(* A jump or step is judged on the position it is made from and with the   *)
(* rank the piece has in that position.                                    *)

Sign(v) == IF v > 0 THEN 1 ELSE -1

Own(board, p) == {sq \in DOMAIN board : board[sq] * p > 0}
Opp(board, p) == {sq \in DOMAIN board : board[sq] * p < 0}
Count(board) == Cardinality(DOMAIN board)
OwnKings(board, p) == {sq \in Own(board, p) : Abs(board[sq]) = 2}

Diagonals == {<<1, 1>>, <<1, -1>>, <<-1, 1>>, <<-1, -1>>}

\* Red (positive) men move toward decreasing y, Black men toward increasing y.
RuleDirs(val) ==
    IF Abs(val) = 2 THEN Diagonals ELSE {d \in Diagonals : d[2] = -Sign(val)}

Add(sq, d, n) == <<sq[1] + n * d[1], sq[2] + n * d[2]>>

RuleCanStep(board, sq, d) ==
    /\ d \in RuleDirs(board[sq])
    /\ Add(sq, d, 1) \in Squares
    /\ Add(sq, d, 1) \notin DOMAIN board

RuleCanJump(board, sq, d) ==
    /\ d \in RuleDirs(board[sq])
    /\ Add(sq, d, 1) \in DOMAIN board
    /\ board[Add(sq, d, 1)] * board[sq] < 0
    /\ Add(sq, d, 2) \in Squares
    /\ Add(sq, d, 2) \notin DOMAIN board

RuleCanJumpFrom(board, sq) == \E d \in Diagonals : RuleCanJump(board, sq, d)

\* A man on its own king row (y = 0 for Red, y = height - 1 for Black) is a king.
RuleRank(val, sq) ==
    IF Abs(val) = 1 /\ sq[2] = (IF val > 0 THEN 0 ELSE height - 1)
    THEN 2 * val ELSE val

RuleStep(board, sq, d) ==
    [s \in (DOMAIN board \ {sq}) \cup {Add(sq, d, 1)} |->
        IF s = Add(sq, d, 1) THEN RuleRank(board[sq], s) ELSE board[s]]

RuleJump(board, sq, d) ==
    [s \in (DOMAIN board \ {sq, Add(sq, d, 1)}) \cup {Add(sq, d, 2)} |->
        IF s = Add(sq, d, 2) THEN RuleRank(board[sq], s) ELSE board[s]]

JumpAvailable(board, p) == \E sq \in Own(board, p) : RuleCanJumpFrom(board, sq)

\* The positions after one quiet move of the side p.
QuietResults(board, p) ==
    {RuleStep(board, m[1], m[2]) :
        m \in {m \in Own(board, p) \X Diagonals : RuleCanStep(board, m[1], m[2])}}

\* <<position, square of the piece>> after one or more jumps of the piece on sq.
RECURSIVE RuleChain(_, _)
RuleChain(board, sq) ==
    LET nexts == {<<RuleJump(board, sq, d), Add(sq, d, 2)>> :
                    d \in {d \in Diagonals : RuleCanJump(board, sq, d)}}
    IN  nexts \cup UNION {RuleChain(n[1], n[2]) : n \in nexts}

\* The same, every jump made by a man: the chain ends where the man is crowned.
RECURSIVE ManChain(_, _)
ManChain(board, sq) ==
    LET nexts == IF Abs(board[sq]) = 1
                 THEN {<<RuleJump(board, sq, d), Add(sq, d, 2)>> :
                         d \in {d \in Diagonals : RuleCanJump(board, sq, d)}}
                 ELSE {}
    IN  nexts \cup UNION {ManChain(n[1], n[2]) : n \in nexts}

\* A man of side p has just been crowned by a jump.
Crownings(board, p) ==
    UNION {{n \in ManChain(board, sq) : Abs(n[1][n[2]]) = 2} :
            sq \in {sq \in Own(board, p) : Abs(board[sq]) = 1}}

\* The final positions of the maximal jump sequences of the piece on sq.
MaximalFinals(board, sq) ==
    {n[1] : n \in {n \in RuleChain(board, sq) : ~RuleCanJumpFrom(n[1], n[2])}}

JumpChainResults(board, p) ==
    UNION {{n[1] : n \in RuleChain(board, sq)} : sq \in Own(board, p)}

HasLegalMove(board, p) == QuietResults(board, p) # {} \/ JumpAvailable(board, p)

\* The moved piece did not change rank: side p has as many kings as before.
NotPromoted(board, p, s) ==
    Cardinality(OwnKings(s, p)) = Cardinality(OwnKings(board, p))

\* The squares side p left and entered between a position and a successor.
Gone(board, p, s) == Own(board, p) \ Own(s, p)
Came(board, p, s) == Own(s, p) \ Own(board, p)
Captured(board, p, s) == Opp(board, p) \ Opp(s, p)

\* A king of side p can jump around a square and end where it started.
RoundTrip(board, p, s) ==
    \E sq \in OwnKings(board, p) : <<s, sq>> \in RuleChain(board, sq)

----------------------------------------------------------------------------
(* Properties of move generation, checked under Spec *)

\* C1: if a jump is available to any piece of the side to move, get_successors
\* returns only positions reached by jump sequences: every returned board has
\* fewer pieces than the parent and no non-capturing move is returned.
C1_ForcedCapture ==
    (pc = "generated" /\ JumpAvailable(sparse_board, player)) =>
        \A i \in DOMAIN successors :
            /\ Count(successors[i]) < Count(sparse_board)
            /\ successors[i] \notin QuietResults(sparse_board, player)
            /\ successors[i] \in JumpChainResults(sparse_board, player)

\* A jump and a quiet move are both available and successors were returned.
C1_Witness ==
    /\ pc = "generated"
    /\ JumpAvailable(sparse_board, player)
    /\ QuietResults(sparse_board, player) # {}
    /\ Len(successors) > 0

\* C2 as stated: when a man lands on its king row by a jump and, as a king,
\* has a further jump from that square, the sequence continues with king
\* mobility: the successors hold the final positions of the continued sequence
\* and not the position where the piece stopped on the king row.
C2_ContinuesAsKing ==
    pc = "generated" =>
        \A n \in Crownings(sparse_board, player) :
            RuleCanJumpFrom(n[1], n[2]) =>
                /\ MaximalFinals(n[1], n[2]) \subseteq Range(successors)
                /\ n[1] \notin Range(successors)

\* C2 as amended: when a man lands on its king row by a jump the sequence ends
\* there, also when as a king it has a further jump from that square: the
\* successors hold the position where the piece stopped on the king row, now a
\* king, and no position of a sequence continued from there.
C2_StopsOnKingRow ==
    pc = "generated" =>
        \A n \in Crownings(sparse_board, player) :
            /\ n[1] \in Range(successors)
            /\ \A c \in RuleChain(n[1], n[2]) : c[1] \notin Range(successors)

\* A man is crowned by a jump and could jump on as a king.
C2_Witness ==
    /\ pc = "generated"
    /\ \E n \in Crownings(sparse_board, player) : RuleCanJumpFrom(n[1], n[2])

\* C3: with a jump available, the jump successors contributed by a piece that
\* is not promoted during the turn are exactly the final positions of all its
\* maximal jump sequences; every leaf of a branching sequence is returned and
\* each distinct final position appears once in the returned list.
C3_MaximalSequences ==
    (pc = "generated" /\ JumpAvailable(sparse_board, player)) =>
        /\ \A sq \in Own(sparse_board, player) :
            {s \in Range(PieceJumps(sparse_board, sq[1], sq[2], player)) :
                NotPromoted(sparse_board, player, s)}
            = {s \in MaximalFinals(sparse_board, sq) :
                NotPromoted(sparse_board, player, s)}
        /\ Range(successors) =
            UNION {Range(PieceJumps(sparse_board, sq[1], sq[2], player)) :
                    sq \in Own(sparse_board, player)}
        /\ \A i, j \in DOMAIN successors : i # j => successors[i] # successors[j]

\* A branching jump whose leaves are the same position: two sequences were
\* followed and one successor is returned.
C3_Witness ==
    /\ pc = "generated"
    /\ Len(successors) >= 1
    /\ Len(JumpSuccessors(sparse_board, player)) > Len(successors)

\* C4 as stated: every successor differs from its parent by exactly one
\* relocated piece of the side to move plus k >= 0 removed opposing pieces
\* (k = 0 for a quiet move, k >= 1 captures for a jump sequence, the count
\* dropping by k); no piece of the side to move is removed and every
\* uncaptured piece other than the moved one keeps its square and its value.
C4_OneRelocatedPiece ==
    pc = "generated" =>
        \A i \in DOMAIN successors :
            LET s == successors[i]
                k == Cardinality(Captured(sparse_board, player, s))
            IN  /\ Cardinality(Gone(sparse_board, player, s)) = 1
                /\ Cardinality(Came(sparse_board, player, s)) = 1
                /\ Cardinality(Own(s, player)) = Cardinality(Own(sparse_board, player))
                /\ Opp(s, player) \subseteq Opp(sparse_board, player)
                /\ \A sq \in DOMAIN s \ Came(sparse_board, player, s) :
                        sq \in DOMAIN sparse_board /\ s[sq] = sparse_board[sq]
                /\ (k = 0) = ~JumpAvailable(sparse_board, player)
                /\ Count(s) = Count(sparse_board) - k

\* C4 as amended: every successor differs from its parent by one moved piece
\* of the side to move, relocated to another square unless a king's jump
\* sequence ends on the square it started from, plus k >= 0 removed opposing
\* pieces; the rest as stated.
C4_OneMovedPiece ==
    pc = "generated" =>
        \A i \in DOMAIN successors :
            LET s == successors[i]
                k == Cardinality(Captured(sparse_board, player, s))
                gone == Gone(sparse_board, player, s)
                came == Came(sparse_board, player, s)
            IN  /\ \/ Cardinality(gone) = 1 /\ Cardinality(came) = 1
                   \/ gone = {} /\ came = {} /\ k >= 1
                        /\ RoundTrip(sparse_board, player, s)
                /\ Cardinality(Own(s, player)) = Cardinality(Own(sparse_board, player))
                /\ Opp(s, player) \subseteq Opp(sparse_board, player)
                /\ \A sq \in DOMAIN s \ came :
                        sq \in DOMAIN sparse_board /\ s[sq] = sparse_board[sq]
                /\ (k = 0) = ~JumpAvailable(sparse_board, player)
                /\ Count(s) = Count(sparse_board) - k

\* A successor in which every piece of the side to move stands where it stood.
C4_Witness ==
    /\ pc = "generated"
    /\ \E i \in DOMAIN successors :
        /\ Gone(sparse_board, player, successors[i]) = {}
        /\ Count(successors[i]) < Count(sparse_board)

\* C5: in every successor a man whose turn ends on its own king row (y = 0 for
\* Red, y = height - 1 for Black) is a king of the same colour, a man whose
\* turn ends on another row is still a man, a king stays a king and no piece
\* other than the moved one changes rank.
C5_Promotion ==
    pc = "generated" =>
        \A i \in DOMAIN successors :
            LET s == successors[i]
                gone == Gone(sparse_board, player, s)
                came == Came(sparse_board, player, s)
            IN  /\ Cardinality(gone) = Cardinality(came)
                /\ Cardinality(came) <= 1
                /\ \A from \in gone : \A to \in came :
                    LET val == sparse_board[from]
                    IN  s[to] = IF Abs(val) = 2 THEN val
                                ELSE IF val = 1 /\ to[2] = 0 THEN 2
                                ELSE IF val = -1 /\ to[2] = height - 1 THEN -2
                                ELSE val
                /\ \A sq \in DOMAIN s \ came :
                        sq \in DOMAIN sparse_board /\ s[sq] = sparse_board[sq]

\* A man is crowned at the end of a jump.
C5_Witness ==
    /\ pc = "generated"
    /\ JumpAvailable(sparse_board, player)
    /\ \E i \in DOMAIN successors :
        \E from \in Gone(sparse_board, player, successors[i]) :
        \E to \in Came(sparse_board, player, successors[i]) :
            Abs(sparse_board[from]) = 1 /\ Abs(successors[i][to]) = 2

\* C6: every step or jump generated by get_successors is a rule move: a man
\* moves diagonally forward only, a king along any diagonal; a quiet move goes
\* one square onto an empty on-board square, each jump two squares over an
\* adjacent opposing piece onto an empty on-board square.
C6_RuleMoves ==
    pc = "generated" =>
        \A i \in DOMAIN successors :
            IF JumpAvailable(sparse_board, player)
            THEN successors[i] \in JumpChainResults(sparse_board, player)
            ELSE successors[i] \in QuietResults(sparse_board, player)

\* A king steps backward while a man of the same side has a step of its own.
C6_Witness ==
    /\ pc = "generated"
    /\ \E sq \in OwnKings(sparse_board, player) : \E d \in Diagonals :
        /\ d[2] = player
        /\ RuleCanStep(sparse_board, sq, d)
        /\ RuleStep(sparse_board, sq, d) \in Range(successors)
    /\ \E sq \in Own(sparse_board, player) \ OwnKings(sparse_board, player) :
        \E d \in Diagonals : RuleCanStep(sparse_board, sq, d)

\* C7: get_terminal_value_and_succ returns (+inf, []) when Black has no piece
\* and Red has one, (-inf, []) when Red has no piece, (player * -inf, []) when
\* both colours have pieces and the side to move has no legal move, and
\* (0, successors) with a non-empty list otherwise.
C7_TerminalValue ==
    pc = "scored" =>
        IF Own(sparse_board, -1) = {} /\ Own(sparse_board, 1) # {}
        THEN value = Inf /\ successors = <<>>
        ELSE IF Own(sparse_board, 1) = {}
        THEN value = -Inf /\ successors = <<>>
        ELSE IF ~HasLegalMove(sparse_board, player)
        THEN value = player * (-Inf) /\ successors = <<>>
        ELSE /\ value = 0
             /\ Len(successors) > 0
             /\ successors = GetSuccessors(sparse_board, player)

\* Both colours have pieces and the side to move cannot move.
C7_Witness ==
    /\ pc = "scored"
    /\ Own(sparse_board, 1) # {}
    /\ Own(sparse_board, -1) # {}
    /\ ~HasLegalMove(sparse_board, player)
    /\ value = player * (-Inf)

----------------------------------------------------------------------------
(* Properties of the score cache, checked under SpecCache *)

\* C8: get_cached_score returns the stored score if and only if the cache is
\* enabled and the hash has an entry whose player is the one asked for and
\* whose depth is at least the depth asked for; otherwise it returns no value.
C8_CachedScore ==
    last_call.op = "get_cached_score" =>
        LET h == last_call.board_hash
            hit == /\ use_score_cache
                   /\ h \in DOMAIN score_cache
                   /\ score_cache[h][3] = last_call.player
                   /\ score_cache[h][2] >= last_call.depth
        IN  /\ hit => last_call.ret = <<score_cache[h][1]>>
            /\ ~hit => last_call.ret = <<>>

\* A deeper request finds an entry of the same side from a shallower search and
\* gets no value.
C8_Witness ==
    /\ last_call.op = "get_cached_score"
    /\ use_score_cache
    /\ last_call.board_hash \in DOMAIN score_cache
    /\ score_cache[last_call.board_hash][3] = last_call.player
    /\ score_cache[last_call.board_hash][2] < last_call.depth
    /\ last_call.ret = <<>>

\* C9 as stated: the store maps (hash, side) to its result.  Once a result is
\* stored for one side of a position that holds the other side's result, a
\* probe for each side at a depth no greater than that side's stored depth
\* returns that side's own score: the other side's entry is not evicted.
C9_EntryPerSide ==
    (/\ last_call.op = "cache_score"
     /\ use_score_cache
     /\ last_call.old # <<>>
     /\ last_call.old[1][3] = -last_call.player) =>
        /\ \A d \in 0..last_call.depth :
            GetCachedScore(score_cache, use_score_cache, last_call.board_hash,
                           d, last_call.player) = <<last_call.score>>
        /\ \A d \in 0..last_call.old[1][2] :
            GetCachedScore(score_cache, use_score_cache, last_call.board_hash,
                           d, -last_call.player) = <<last_call.old[1][1]>>

\* C9 as amended: the store maps the hash alone to one (score, depth, side)
\* entry.  Once results are stored for both sides of a position, a probe for
\* the side stored last at a depth no greater than its stored depth returns
\* that side's score (cache enabled), and a probe for the other side returns
\* no value at any depth: storing for one side evicts the other side's entry.
C9_EntryPerHash ==
    last_call.op = "cache_score" =>
        /\ use_score_cache =>
            \A d \in 0..last_call.depth :
                GetCachedScore(score_cache, use_score_cache, last_call.board_hash,
                               d, last_call.player) = <<last_call.score>>
        /\ \A d \in Depths :
            GetCachedScore(score_cache, use_score_cache, last_call.board_hash,
                           d, -last_call.player) = <<>>

\* A result is stored for one side over the entry of the other side.
C9_Witness ==
    /\ last_call.op = "cache_score"
    /\ use_score_cache
    /\ last_call.old # <<>>
    /\ last_call.old[1][3] = -last_call.player

\* What cache_score leaves alone: the entry, or the absence, of every other hash.
OtherHashesUnchanged(h) ==
    \A g \in Hashes \ {h} :
        /\ (g \in DOMAIN score_cache') = (g \in DOMAIN score_cache)
        /\ g \in DOMAIN score_cache => score_cache'[g] = score_cache[g]

\* C10 as stated: cache_score replaces whatever entry the hash had, with no
\* condition: immediately afterwards get_cached_score(hash, d, player) returns
\* score for every d <= depth, and the entry of every other hash is unchanged.
C10_Replaces ==
    [][last_call'.op = "cache_score" =>
        /\ \A d \in 0..last_call'.depth :
            GetCachedScore(score_cache', use_score_cache', last_call'.board_hash,
                           d, last_call'.player) = <<last_call'.score>>
        /\ OtherHashesUnchanged(last_call'.board_hash)]_vars

\* C10 as amended: cache_score replaces whatever entry the hash had, with no
\* condition; immediately afterwards, when the score cache is enabled,
\* get_cached_score(hash, d, player) returns score for every d <= depth (with
\* the cache disabled it returns no value), and the entry of every other hash
\* is unchanged.
C10_ReplacesWhenEnabled ==
    [][last_call'.op = "cache_score" =>
        /\ score_cache'[last_call'.board_hash] =
                <<last_call'.score, last_call'.depth, last_call'.player>>
        /\ \A d \in 0..last_call'.depth :
            GetCachedScore(score_cache', use_score_cache', last_call'.board_hash,
                           d, last_call'.player) =
                IF use_score_cache THEN <<last_call'.score>> ELSE <<>>
        /\ OtherHashesUnchanged(last_call'.board_hash)]_vars

\* A shallower result of the same side has replaced a deeper entry while
\* another hash holds an entry.
C10_Witness ==
    /\ last_call.op = "cache_score"
    /\ use_score_cache
    /\ last_call.old # <<>>
    /\ last_call.old[1][3] = last_call.player
    /\ last_call.old[1][2] > last_call.depth
    /\ last_call.old[1][1] # last_call.score
    /\ DOMAIN score_cache # {last_call.board_hash}

----------------------------------------------------------------------------
(* Claims about the search stack *)

\* The entries of the stack list that hold the board contents of object obj
\* with side p.
OnPath(obj, p) ==
    {i \in DOMAIN successor_stack.stack :
        /\ heap[successor_stack.stack[i][1]] = heap[obj]
        /\ successor_stack.stack[i][2] = p}

\* C11: successor_in_current_path(b, player) returns true whenever a board
\* with the same occupied squares and piece values as b was pushed with the
\* same player and has not been popped, also when b is another object than
\* the one pushed.
C11_FoundByPosition ==
    stack_ret.op = "successor_in_current_path" =>
        (OnPath(stack_ret.successor, stack_ret.player) # {} => stack_ret.ret)

\* The occurrences of item in the stack list.
Occurrences(item) ==
    Cardinality({i \in DOMAIN successor_stack.stack : successor_stack.stack[i] = item})

\* C12: an item is contained in the stack exactly when it was pushed more
\* often than popped; the lookup table holds for every item its number of
\* occurrences in the stack list and has no entry of count zero.
C12_CountsOccurrences ==
    /\ \A item \in Items_(heap) :
        /\ StackContains(heap, successor_stack, item) <=> Cnt(pending, item) > 0
        /\ Cnt(successor_stack.lookup, item) = Occurrences(item)
        /\ Occurrences(item) = Cnt(pending, item)
    /\ \A k \in DOMAIN successor_stack.lookup :
        k \in Items_(heap) /\ successor_stack.lookup[k] > 0

\* An item that was on the stack twice has just been popped once and is
\* still contained.
C12_Witness ==
    /\ stack_ret.op = "pop_successor"
    /\ Cnt(pending, stack_ret.ret) = 1
    /\ StackContains(heap, successor_stack, stack_ret.ret)
    /\ Len(successor_stack.stack) = 1


----------------------------------------------------------------------------
(* Claims about recover_best_path *)

\* The side to move at the i-th board of the path.
SideAt(i) == IF i % 2 = 1 THEN rroot[2] ELSE -rroot[2]

\* The successor hashes recorded in the strategy map.
SuccessorHashes == {HashKey(strategy[k][1]) : k \in DOMAIN strategy}

\* C13: the sequence returned by recover_best_path contains no two boards
\* with the same hash, the root included.
C13_NoRepeatedHash ==
    rpc = "done" =>
        \A i, j \in DOMAIN path : HashKey(path[i]) = HashKey(path[j]) => i = j

\* C14: the returned sequence starts with the root; each next element is the
\* successor recorded under (hash of the previous element, side to move),
\* the side flipping at every step from the given side; and the walk ended
\* at the first key with no entry, unless it ended at a successor whose hash
\* was already appended.
C14_FollowsStrategy ==
    rpc = "done" =>
        /\ Len(path) >= 1 /\ path[1] = rroot[1]
        /\ \A i \in 1..(Len(path) - 1) :
            /\ <<HashKey(path[i]), SideAt(i)>> \in DOMAIN strategy
            /\ path[i + 1] = strategy[<<HashKey(path[i]), SideAt(i)>>][1]
        /\ LET last == <<HashKey(path[Len(path)]), SideAt(Len(path))>>
           IN  \/ last \notin DOMAIN strategy
               \/ \E j \in 2..Len(path) :
                    HashKey(strategy[last][1]) = HashKey(path[j])

\* A walk over two recorded moves that ended at a key with no entry.
C14_Witness ==
    /\ rpc = "done"
    /\ Len(path) = 3
    /\ <<HashKey(path[3]), SideAt(3)>> \notin DOMAIN strategy

\* C15: recover_best_path terminates for every strategy map, maps whose
\* recorded successors form a cycle included (the walk leaves the while loop
\* for good), and the path never has more than one board more than the
\* number of distinct successor hashes recorded.
C15_Terminates ==
    /\ [](Len(path) <= 1 + Cardinality(SuccessorHashes))
    /\ <>[](rpc # "loop")

\* The walk went round a cycle of two recorded moves and returned.
C15_Witness ==
    /\ rpc = "done"
    /\ Len(path) = 3
    /\ <<HashKey(path[3]), SideAt(3)>> \in DOMAIN strategy
    /\ HashKey(strategy[<<HashKey(path[3]), SideAt(3)>>][1]) = HashKey(path[2])


----------------------------------------------------------------------------
(* Claims about the search *)

\* The position a hash key was computed from (the key lists its squares).
BoardOfHash(h) == Board(Range(h))

\* The search returned and the path was recovered from the strategy map.
SearchDone == spc = "returned" /\ rpc = "done"

\* C16: every board of the sequence returned by a search from a root with
\* Red to move is a legal successor of the board before it, for the side
\* that alternates starting from Red; and the strategy map records under
\* (hash of a board, side) only a legal successor of that board for that
\* side.
C16_LegalMoves ==
    /\ \A k \in DOMAIN strategy :
        strategy[k][1] \in Range(GetSuccessors(BoardOfHash(k[1]), k[2]))
    /\ SearchDone =>
        \A i \in 1..(Len(path) - 1) :
            path[i + 1] \in Range(GetSuccessors(path[i], SideAt(i)))

\* A search returned a line of at least three moves, with a capture in it.
C16_Witness ==
    /\ SearchDone
    /\ Len(path) >= 4
    /\ Cardinality(DOMAIN path[Len(path)]) < Cardinality(DOMAIN path[1])

\* C17: the sequence of boards returned by a search of depth max_depth has
\* at most max_depth + 1 boards.
C17_PathWithinDepth ==
    SearchDone => Len(path) <= max_depth + 1

\* C18: the score the search returns with the score cache enabled (first
\* pass) equals the score it returns for the same root and depth with the
\* cache disabled (second pass).
C18_SameScore ==
    (pass = 2 /\ spc = "returned") => root_score = first.root_score

\* C19: the depth-limited search terminates on every root and every depth,
\* positions of kings only included, where a (position, side) recurs along
\* a line of play: the recursion is never deeper than max_depth frames, and
\* every search returns to its caller and stays returned.
C19_SearchTerminates ==
    /\ [](Len(frames) <= max_depth)
    /\ <>[](pass = 2 /\ SearchDone)

\* A search in which a (position, side) came up a second time along the
\* line being searched has returned.
C19_Witness ==
    /\ SearchDone
    /\ recurred
    /\ \A sq \in DOMAIN heap[1] : heap[1][sq] \in {2, -2}

\* The root of the search is terminal (one colour has no piece) or Red, who
\* is to move at the root, has no legal move.
RootIsOver ==
    \/ IsEnd(heap[1]) # 0
    \/ GetSuccessors(heap[1], 1) = <<>>

\* C20: if the root is terminal or the side to move at the root has no
\* legal move, the search records no strategy entry for the root and the
\* returned sequence is the root alone.
C20_RootOnly ==
    (spc # "idle" /\ RootIsOver) =>
        /\ <<HashKey(heap[1]), 1>> \notin DOMAIN strategy
        /\ SearchDone => path = <<heap[1]>>

\* A search to depth one or more returned on a root that has red pieces
\* only, where Red could still move.
C20_Witness ==
    /\ SearchDone
    /\ max_depth >= 1
    /\ IsEnd(heap[1]) = Inf
    /\ GetSuccessors(heap[1], 1) # <<>>

----------------------------------------------------------------------------
(* Claims about hashing and the board text *)

\* C21: the text fed to the board hash is the same for two boards exactly
\* when they have the same occupied squares with the same piece values,
\* whatever the order their dicts were filled in; in particular it differs
\* for two positions that differ in the rank of one piece.  The sorted item
\* list used as the hash elsewhere agrees with the text.
C21_HashTextBySquares ==
    last_call.op = "hash" =>
        \A i, j \in DOMAIN heap :
            /\ (last_call.ret[i] = last_call.ret[j]) <=> (heap[i] = heap[j])
            /\ (HashKey(heap[i]) = HashKey(heap[j])) <=> (heap[i] = heap[j])

\* Hashes were taken of two objects that hold the same position with dicts
\* filled in a different order, and of a third of at least two pieces.
C21_Witness ==
    /\ last_call.op = "hash"
    /\ \E i, j \in DOMAIN heap :
        /\ heap[i] = heap[j]
        /\ key_order[i] # key_order[j]
        /\ last_call.ret[i] = last_call.ret[j]
        /\ Cardinality(DOMAIN heap[i]) >= 2

\* The text has height rows of width characters over {., r, R, b, B}, each
\* row ended by a newline.
WellFormedText(string) ==
    /\ Len(string) = height * (width + 1)
    /\ \A k \in DOMAIN string :
        IF k % (width + 1) = 0 THEN string[k] = "\n"
        ELSE string[k] \in {".", "r", "R", "b", "B"}

\* C22: read_from_string(str(board)) has exactly the occupied squares and
\* piece values of board, for every board with all pieces within bounds,
\* and str(board) is height rows of width characters over {., r, R, b, B},
\* each ended by a newline.
C22_TextRoundTrip ==
    last_call.op = "read_from_string" =>
        /\ heap[LastObject] = heap[last_call.source]
        /\ WellFormedText(last_call.string)

\* A generated board of pieces of both colours, whose dict is not in row
\* order, was written out and read back.
C22_Witness ==
    /\ last_call.op = "read_from_string"
    /\ key_order[last_call.source] # Items(heap[last_call.source])
    /\ IsEnd(heap[last_call.source]) = 0

----------------------------------------------------------------------------
(* Claims about update_strategy *)

\* The places in the log of the calls made for key.
CallsFor(key) == {i \in DOMAIN last_call.log : last_call.log[i].key = key}

\* The best score submitted for key: the largest for Red, the smallest for
\* Black.
BestSubmitted(key) ==
    LET c == CallsFor(key)
    IN  last_call.log[CHOOSE i \in c : \A j \in c :
            last_call.log[j].score * key[2] <= last_call.log[i].score * key[2]].score

\* C23: after any sequence of update_strategy calls the score recorded for
\* a key is the largest submitted for it when the player is +1 and the
\* smallest when the player is -1, the recorded successor is the first one
\* submitted with that score, and a key once recorded keeps an entry.
C23_BestFirstKept ==
    /\ \A i \in DOMAIN last_call.log : last_call.log[i].key \in DOMAIN strategy
    /\ \A key \in DOMAIN strategy :
        /\ CallsFor(key) # {}
        /\ strategy[key][2] = BestSubmitted(key)
        /\ LET first_best == CHOOSE i \in CallsFor(key) :
                    /\ last_call.log[i].score = BestSubmitted(key)
                    /\ \A j \in CallsFor(key) :
                        last_call.log[j].score = BestSubmitted(key) => i <= j
           IN  strategy[key][1] = last_call.log[first_best].successor

\* Three calls for Black's key: a heuristic score, then a loss for Red with
\* one move, then a loss for Red with another move; the second is recorded.
C23_Witness ==
    /\ Len(last_call.log) = 3
    /\ \A i \in 1..3 : last_call.log[i].key[2] = -1
    /\ last_call.log[1].score = 0
    /\ last_call.log[2].score = -Inf
    /\ last_call.log[3].score = -Inf
    /\ last_call.log[2].successor # last_call.log[3].successor
    /\ strategy[last_call.log[1].key][1] = last_call.log[2].successor

----------------------------------------------------------------------------
(* Claims about the score cache in the search *)

\* No entry of the score cache is replaced by an entry of the same side
\* with a smaller depth.
DepthKept ==
    \A h \in DOMAIN score_cache \cap DOMAIN score_cache' :
        score_cache'[h][3] = score_cache[h][3] =>
            score_cache'[h][2] >= score_cache[h][2]

\* C24 as stated: across any sequence of stores for one hash, a store with
\* the same side as the existing entry never lowers the stored depth.
C24_DepthNeverLowered == [][DepthKept]_vars

\* C24 as amended: in a search with the score cache enabled, where a store
\* follows a probe that missed, a store with the same side as the existing
\* entry never lowers the stored depth.
C24_DepthKeptWhenEnabled == [][use_score_cache => DepthKept]_vars

\* With the cache enabled, a result was stored over an entry of the same
\* side and a smaller depth.
C24_Witness ==
    /\ use_score_cache
    /\ spc = "return"
    /\ last_call.op = "cache_score"
    /\ last_call.old # <<>>
    /\ last_call.old[1][3] = last_call.player
    /\ last_call.old[1][2] < last_call.depth

----------------------------------------------------------------------------
(* Claims about the positions get_successors produces *)

\* A man of the board stands on its own king row.
ManOnKingRow(board) ==
    \E sq \in DOMAIN board : Abs(board[sq]) = 1 /\ sq[2] = KingRow(board[sq])

\* Every key is a square of the board, every value is a piece, and no man
\* stands on its own king row.
WellPlaced(board) ==
    /\ \A sq \in DOMAIN board : InBounds(sq) /\ board[sq] \in PieceValues
    /\ ~ManOnKingRow(board)

\* C25: if every piece of a board is within the board bounds and no man is
\* on its own king row, the same holds of every board get_successors
\* returns, for either side; so it holds of every position reached from
\* such a board by alternating turns.
C25_StaysWellPlaced ==
    (pc \in {"generated", "scored"} /\ WellPlaced(sparse_board)) =>
        \A i \in 1..Len(successors) : WellPlaced(successors[i])

\* A man of a well-placed position jumps onto its king row, at the edge of
\* the board, and is crowned.
C25_Witness ==
    /\ pc = "generated"
    /\ WellPlaced(sparse_board)
    /\ \E i \in 1..Len(successors) :
        /\ Count(successors[i]) < Count(sparse_board)
        /\ Cardinality(OwnKings(successors[i], player))
                > Cardinality(OwnKings(sparse_board, player))
----------------------------------------------------------------------------
(* Claims about objects and their dicts *)

\* The objects of the store that the call of get_successors created.
NewObjects(call) == (DOMAIN call.after.objs) \ (DOMAIN call.before.objs)

\* C26: get_successors, _follow_jump, _perform_move and _perform_jump leave
\* the mapping of their receiver as it was, at every depth of a multi-jump:
\* every call returns with the receiver's dict as it was at the entry, and
\* the dicts that existed before get_successors was called are unchanged.
\* Every board created owns its dict: no two objects refer to the same dict,
\* so that a change to a successor's dict changes neither the parent nor
\* another successor.  The boards returned are the ones get_successors
\* yields on sparse_boards taken as values.
C26_ReceiverUnchanged ==
    last_call.op = "get_successors" =>
        LET before == last_call.before
            after == last_call.after
        IN  /\ \A i \in DOMAIN after.calls :
                    after.calls[i].before = after.calls[i].after
            /\ \A d \in DOMAIN before.dicts : after.dicts[d] = before.dicts[d]
            /\ \A o \in DOMAIN before.objs : after.objs[o] = before.objs[o]
            /\ \A o1, o2 \in DOMAIN after.objs :
                    after.objs[o1] = after.objs[o2] => o1 = o2
            /\ [i \in DOMAIN last_call.ret |->
                    <<DictOf(after, last_call.ret[i]).map,
                      DictOf(after, last_call.ret[i]).keys>>]
                 = GetSuccessorsOrdered(DictOf(before, last_call.self).map,
                                        DictOf(before, last_call.self).keys,
                                        last_call.player)

\* get_successors returned two boards or more after a multi-jump: a call of
\* _follow_jump whose receiver is a board created by an earlier jump.
C26_Witness ==
    /\ last_call.op = "get_successors"
    /\ Len(last_call.ret) >= 2
    /\ \E i \in DOMAIN last_call.after.calls :
            /\ last_call.after.calls[i].method = "_follow_jump"
            /\ last_call.after.calls[i].self \in NewObjects(last_call)
----------------------------------------------------------------------------
(* Claims about evaluate and utility *)

C28_TestOnSelfAgrees ==
    last_call.op = "get_successors" =>
        /\ \A i \in DOMAIN last_call.after.tests :
                last_call.after.tests[i].answer = last_call.after.tests[i].on_new_board
        /\ ~last_call.after.err
        /\ ~last_call.after.overwritten

\* The square a test of _follow_jump would jump over is the square of the
\* piece the jump before it captured: self holds it and new_board does not.
OverCaptured(st, test) ==
    LET sq == <<test.from[1] + test.move[1], test.from[2] + test.move[2]>>
    IN  /\ sq \in DOMAIN DictOf(st, test.self).map
        /\ sq \notin DOMAIN DictOf(st, test.new_board).map

\* A sequence of two jumps or more of a king: a test found a further jump,
\* and a test looked back over the piece just captured.
C28_Witness ==
    /\ last_call.op = "get_successors"
    /\ \E i, j \in DOMAIN last_call.after.tests :
            /\ last_call.after.tests[i].answer
            /\ OverCaptured(last_call.after, last_call.after.tests[j])
----------------------------------------------------------------------------
(* Claims about the strategy map and the score cache in the search *)

\* A frame has run its loop over the children and its result was stored.
FrameStored == spc = "expand" /\ spc' = "return"

\* C29 as stated: whenever the search has completed a frame for (position,
\* side) and stored its result, the score recorded in the strategy map under
\* (hash, side), where there is one, is the score the score cache holds for
\* that hash and side; also when the position and side were searched before
\* at a smaller remaining depth.
C29_StrategyScoreIsCached ==
    [][FrameStored =>
         LET h == last_call'.board_hash
             key == <<h, last_call'.player>>
         IN  key \in DOMAIN strategy' =>
                strategy'[key][2] = score_cache'[h][1]]_vars

\* C29 as amended: whenever the search has completed a frame for (position,
\* side) and stored its result, the score recorded in the strategy map under
\* (hash, side), where there is one, is at least as good for the side as
\* the score the score cache now holds for the hash, and there is an entry
\* whenever the stored score is not the loss marker of the side.
C29_StrategyAtLeastCached ==
    [][FrameStored =>
         LET h == last_call'.board_hash
             side == last_call'.player
             key == <<h, side>>
         IN  /\ score_cache'[h] = <<last_call'.score, last_call'.depth, side>>
             /\ key \in DOMAIN strategy' =>
                    strategy'[key][2] * side >= score_cache'[h][1] * side
             /\ last_call'.score # -side * Inf => key \in DOMAIN strategy']_vars

\* A position was searched again for the same side at a greater remaining
\* depth and the result stored: the strategy map holds a better score for
\* the side than the score cache.
C29_Witness ==
    /\ last_call.op = "cache_score"
    /\ last_call.board_hash \in DOMAIN score_cache
    /\ score_cache[last_call.board_hash]
         = <<last_call.score, last_call.depth, last_call.player>>
    /\ last_call.old # <<>>
    /\ last_call.old[1][3] = last_call.player
    /\ last_call.old[1][2] < last_call.depth
    /\ <<last_call.board_hash, last_call.player>> \in DOMAIN strategy
    /\ strategy[<<last_call.board_hash, last_call.player>>][2] * last_call.player
         > last_call.score * last_call.player
----------------------------------------------------------------------------
(* Claims about lines of play *)

\* The squares of the men of the side p.
Men(board, p) == {sq \in DOMAIN board : board[sq] = p}

\* The number of rows between a square and the king row of the side p
\* (row 0 for Red, row height - 1 for Black).
RowsToKingRow(sq, p) == IF p = 1 THEN sq[2] ELSE height - 1 - sq[2]

\* The rows all men of the board are away from their king rows.
RECURSIVE RowsToGo(_, _)
RowsToGo(board, D) ==
    IF D = {} THEN 0
    ELSE LET sq == CHOOSE sq \in D : TRUE
         IN  (IF Abs(board[sq]) = 1 THEN RowsToKingRow(sq, board[sq]) ELSE 0)
                + RowsToGo(board, D \ {sq})

\* next is board after a king of the side p stepped to an empty neighbour
\* square: nothing else changed.
KingStep(board, next, p) ==
    \E from \in DOMAIN board, to \in Squares \ DOMAIN board :
        /\ board[from] = 2 * p
        /\ Abs(to[1] - from[1]) = 1 /\ Abs(to[2] - from[2]) = 1
        /\ next = [sq \in (DOMAIN board \ {from}) \cup {to} |->
                        IF sq = to THEN 2 * p ELSE board[sq]]

\* A turn from board to next, played by the side p.
TurnProgress(board, next, p) ==
    /\ next # board
    /\ Cardinality(DOMAIN next) <= Cardinality(DOMAIN board)
    /\ \A c \in {1, -1} : \A sq \in Men(next, c) \ Men(board, c) :
            \E gone \in Men(board, c) \ Men(next, c) :
                RowsToKingRow(gone, c) > RowsToKingRow(sq, c)
    /\ RowsToGo(next, DOMAIN next) <= RowsToGo(board, DOMAIN board)
    /\ (/\ Cardinality(DOMAIN next) = Cardinality(DOMAIN board)
        /\ RowsToGo(next, DOMAIN next) = RowsToGo(board, DOMAIN board))
            => KingStep(board, next, p)

\* C30: along any sequence of alternating turns generated by get_successors
\* the number of pieces never increases, no man moves away from its king
\* row, and no successor is the position it was generated from.  The number
\* of pieces and the rows the men have to go never increase and a turn that
\* keeps both is a step of a king without a capture; so a position recurs
\* along a line of play only when every move between the two occurrences is
\* a non-capturing king move.
C30_NoWayBack ==
    [][player' # player => TurnProgress(sparse_board, sparse_board', player)]_vars

\* A position with a man on the board and a king's step among its
\* successors after which the kings of both sides can step back, so that the
\* position recurs after four turns.
C30_Witness ==
    /\ pc = "generated"
    /\ \E sq \in DOMAIN sparse_board : Abs(sparse_board[sq]) = 1
    /\ \E i \in DOMAIN successors :
            /\ KingStep(sparse_board, successors[i], player)
            /\ \E t \in Range(GetSuccessors(successors[i], -player)) :
                \E u \in Range(GetSuccessors(t, player)) :
                    sparse_board \in Range(GetSuccessors(u, -player))

====
